---- MODULE Spec2Model ----
(***************************************************************************)
(* Model of the transaction broadcaster of the oracle price feeder         *)
(* (libraries/broadcaster/src/lib.rs): the run loop that receives          *)
(* transaction packages from the queue, signs them with the signer's       *)
(* sequence number, broadcasts them with the package's expiration, and     *)
(* keeps the sequence number and the consecutive-error counter.            *)
(*                                                                         *)
(* One action per await point of Broadcast::run / Broadcast::broadcast_tx. *)
(* The node is the environment: either a mock that answers anything, or a  *)
(* chain that checks the signed sequence number against the one it         *)
(* expects.                                                                *)
(***************************************************************************)
EXTENDS Integers, Sequences, FiniteSets

\* ------------------------------------------------------------- bounds
MaxPackages == 5        \* packages the tasks enqueue in one run
MaxBroadcasts == 6      \* broadcast calls in one run
NumTasks == 2           \* tasks, each awaiting at most one feedback at a time
NumInstances == 3       \* broadcasters started from clones of one State
LivePackages == 3       \* packages enqueued in a run with deadlines
GasBits == 7            \* bits of the gas type (u64 in the program, scaled down)
MaxMessages == 3        \* messages added to one ContractTx
MaxDue == 7             \* alarms that become due at the two alarm contracts in one run
MaxNetworkLen == 4      \* bytes of the network identifiers tried exhaustively
MaxCalls == 4           \* calls of Id::into_task with one creation context
MaxCommits == 3         \* calls of chain-comms commit_tx with one signer
MaxSends == 3           \* transactions broadcast by broadcast.rs
MaxProviders == 2       \* provider configurations read
MaxFaults == 1          \* transport errors, expirations and dropped receivers in one run

\* The signer's sequence number at startup, the sequence number the chain expects
\* at startup, and the account sequences a mock node reports to a fetch.
InitSequences == {0, 1}
InitChainSequences == 0..4
MockSequences == {0, 2}

\* ---------------------------------------------------- program constants
SIGNATURE_VERIFICATION_ERROR_CODE == 32
ErrorBudget == 5
CodeOk == 0

\* Response codes other than 0 and 32 the node answers with.
OtherCodes == {11, 19}
Codes == {CodeOk, SIGNATURE_VERIFICATION_ERROR_CODE} \cup OtherCodes

Packages == 1..MaxPackages
\* Placeholders: no package, no response code, no sequence number.
NoPackage == 1 - 1
NoCode == 0 - 1
NoSeq == 0 - 1

Instances == 1..NumInstances
\* Placeholder: no instance holds the mutex.
NoInstance == 1 - 1

VARIABLES
    node,                \* "mock" or "chain": how the node answers
    chain_seq,           \* the account sequence the chain expects (node = "chain")
    senders_alive,       \* some task still holds a sender of the queue
    next_id,             \* the next package the tasks enqueue
    transaction_rx,      \* the queue: packages sent and not yet received
    feedback,            \* per package: state of its one-shot feedback channel
    pc,                  \* the broadcaster's await point
    cur,                 \* the package broadcast_tx is handling
    sequence_number,     \* signer.sequence_number
    consecutive_errors,  \* Broadcast::consecutive_errors
    response,            \* the response code held across the forced fetch
    att,                 \* record of the current / last broadcast attempt
    pkg,                 \* record of the current / last package
    run,                 \* record of the whole run
    node_codes,          \* the codes other than 0 and 32 the node answers with
    deadline_passed,     \* the packages whose expiration deadline has passed
    signer_lock,         \* State::signer's mutex: the instance that holds it
    rx_lock,             \* State::transaction_rx's mutex: the instance that holds it
    inst,                \* per broadcaster instance: its position in State::run
    gas,                 \* one gas estimation: its inputs, the simulation, the signed limit
    contract_tx,         \* one ContractTx: its messages and the outcome of commit
    alarms,              \* the alarms dispatcher: its loop, the contracts' due alarms
    grpc_var,            \* one call of Id::dex_node_grpc_var: the string and the search index
    creation,            \* one task creation context: its DEX node clients, the tasks made
    commit,              \* chain-comms commit_tx: the signer's sequence, the last call
    send_back,           \* broadcast.rs: the result senders, the last send_back_tx_hash
    provider             \* the price feeder's provider: its type and name, the result

\* The broadcaster's own state and its queue, node and tasks.
broadcast_vars == <<node, chain_seq, senders_alive, next_id, transaction_rx, feedback,
                    pc, cur, sequence_number, consecutive_errors, response,
                    att, pkg, run>>

\* The two mutexes of State and the instances started from its clones.
lock_vars == <<signer_lock, rx_lock, inst>>

\* The legacy services' parts.
legacy_vars == <<commit, send_back, provider>>

\* What the steps of one running broadcaster leave alone.
other_vars == <<node_codes, deadline_passed, lock_vars,
                gas, contract_tx, alarms, grpc_var, creation, legacy_vars>>

vars == <<broadcast_vars, other_vars>>

\* ------------------------------------------------------------ feedback
\* The one-shot feedback channel of a package, as the task sees it.
FbInit == [st |-> "unsent", code |-> NoCode]

\* Variant: one feedback channel is shared: the response goes to the task that
\* registered last.
SendFeedback_ToNewestWaiting(p, code) ==
    LET waiting == {q \in Packages : feedback[q].st = "pending"}
        newest == CHOOSE q \in waiting : \A w \in waiting : w <= q
    IN IF waiting = {}
       THEN [feedback EXCEPT ![p] = [st |-> "discarded", code |-> code]]
       ELSE [feedback EXCEPT ![newest] = [st |-> "delivered", code |-> code]]

\* feedback_sender.send(response): the receiver gets it, or, when the task has
\* already dropped the receiver, the send fails and the response is discarded.
SendFeedback(p, code) ==
    IF feedback[p].st = "pending"
    THEN [feedback EXCEPT ![p] = [st |-> "delivered", code |-> code]]
    ELSE [feedback EXCEPT ![p] = [st |-> "discarded", code |-> code]]

\* The package is dropped with nothing sent: the waiting task observes closure.
DropSender(p) ==
    IF feedback[p].st = "pending"
    THEN [feedback EXCEPT ![p] = [st |-> "closed", code |-> NoCode]]
    ELSE [feedback EXCEPT ![p] = [st |-> "dead", code |-> NoCode]]

\* -------------------------------------------------------------- signer
\* Signer::increment_sequence_number
increment_sequence_number(s) == s + 1

\* --------------------------------------------- broadcast_tx, 'process
\* Variant: the signature-verification code is forgotten.
IncrementsSequence_OkOnly(code) ==
    code = CodeOk

\* if tx_code.is_ok() || tx_code.value() == SIGNATURE_VERIFICATION_ERROR_CODE
IncrementsSequence(code) ==
    code = CodeOk \/ code = SIGNATURE_VERIFICATION_ERROR_CODE

\* Variant: a rejected transaction gives its sequence number back.
SequenceAfterResponse_RollsBack(seq, code) ==
    IF IncrementsSequence(code) THEN increment_sequence_number(seq) ELSE seq - 1

\* The sequence number after a response: incremented or left alone.
SequenceAfterResponse(seq, code) ==
    IF IncrementsSequence(code) THEN increment_sequence_number(seq) ELSE seq

\* Variant: a signature-verification response is not counted as an error.
NextConsecutiveErrors_SkipsSigError(ce, code) ==
    IF code = CodeOk THEN 0
    ELSE IF code = SIGNATURE_VERIFICATION_ERROR_CODE THEN ce
    ELSE (ce + 1) % ErrorBudget

\* Variant: a success does not reset the counter.
NextConsecutiveErrors_NoReset(ce, code) ==
    IF code = CodeOk THEN ce ELSE (ce + 1) % ErrorBudget

\* Variant: the counter is incremented without the modulus.
NextConsecutiveErrors_Unbounded(ce, code) ==
    IF code = CodeOk THEN 0 ELSE ce + 1

\* if tx_code.is_ok() { 0 } else { (consecutive_errors + 1) % 5 }
NextConsecutiveErrors(ce, code) ==
    IF code = CodeOk THEN 0 ELSE (ce + 1) % ErrorBudget

\* Variant: the check is made outside the else branch, after a success too.
ForcesFetch_AlsoAfterOk(code, ce1) ==
    ce1 = 0

\* Variant: the fetch is forced one error early.
ForcesFetch_OneEarly(code, ce1) ==
    code # CodeOk /\ ce1 = ErrorBudget - 1

\* the else branch's: if self.consecutive_errors == 0 { fetch_sequence_number }
ForcesFetch(code, ce1) ==
    code # CodeOk /\ ce1 = 0

\* Variant: a transport error is counted like an error response.
ConsecutiveErrorsAfterTransportError_Counted(ce) == (ce + 1) % ErrorBudget

\* Err(error) => { log; break 'process }: the counter after a transport error.
ConsecutiveErrorsAfterTransportError(ce) == ce

\* Variant: an expiration is counted like an error response.
ConsecutiveErrorsAfterExpiration_Counted(ce) == (ce + 1) % ErrorBudget

\* else { break 'broadcast_loop Ok(()) }: the counter after an expiration.
ConsecutiveErrorsAfterExpiration(ce) == ce

\* Variant: only a success is reported to the task.
DeliversFeedback_OkOnly(code) ==
    code = CodeOk

\* if tx_code.value() != SIGNATURE_VERIFICATION_ERROR_CODE { send; break }
DeliversFeedback(code) ==
    code # SIGNATURE_VERIFICATION_ERROR_CODE

\* ---------------------------------------------------------------- node
\* The codes the node may answer a broadcast signed with `signed` with.
NodeAnswers(signed) ==
    IF node = "mock"
    THEN {CodeOk, SIGNATURE_VERIFICATION_ERROR_CODE} \cup node_codes
    ELSE IF signed = chain_seq THEN {CodeOk} \cup node_codes
    ELSE {SIGNATURE_VERIFICATION_ERROR_CODE}

\* The chain's expected sequence after a broadcast, signed with `signed`, that
\* ended without a response (transport error, expiration): the transaction may
\* have been admitted all the same.
ChainAfterLostBroadcast(signed, admitted) ==
    IF node = "chain" /\ admitted /\ signed = chain_seq
    THEN chain_seq + 1 ELSE chain_seq

\* The values a fetch of the account's sequence number may return.
NodeSequences ==
    IF node = "mock" THEN MockSequences ELSE {chain_seq}

\* ---------------------------------------------------------------- init
AttInit == [signed |-> NoSeq, ce_before |-> 0, outcome |-> "none",
            code |-> NoCode, fetched |-> "none", fetch_value |-> NoSeq,
            sim |-> "none", sim_signed |-> NoSeq, sim_ce |-> 0, late |-> FALSE,
            prev_code |-> NoCode, prev_fetch |-> NoSeq]

PkgInit == [id |-> NoPackage, seq0 |-> NoSeq, ce0 |-> 0, chain0 |-> NoSeq,
            broadcasts |-> 0, n32 |-> 0, nerr |-> 0, nfetch |-> 0]

RunInit == [broadcasts |-> 0, prev_signed |-> NoSeq, last_signed |-> NoSeq,
            fetch_since_sign |-> FALSE, fetch_between |-> FALSE,
            err_run |-> 0, bad_run |-> 0, fetch_run |-> 0, faults |-> 0,
            slept |-> "none", kept |-> TRUE]

\* The records att, pkg and run are history: they are kept in the runs whose
\* properties read them, and left as they are in the others.
Keep(old, new) == IF run.kept THEN new ELSE old

\* No instance holds a mutex of State; no clone of State has been run yet.
LockInit ==
    /\ signer_lock = NoInstance
    /\ rx_lock = NoInstance
    /\ inst = [i \in Instances |-> "idle"]

\* Broadcast::new, and the queue, the tasks and the node at startup.
BroadcastInit ==
    /\ node \in {"mock", "chain"}
    /\ chain_seq \in (IF node = "chain" THEN InitChainSequences ELSE {0})
    /\ senders_alive = TRUE
    /\ next_id = 1
    /\ transaction_rx = <<>>
    /\ feedback = [p \in Packages |-> FbInit]
    /\ pc = "recv"
    /\ cur = NoPackage
    /\ sequence_number \in InitSequences
    /\ consecutive_errors = 0
    /\ response = NoCode
    /\ att = AttInit
    /\ pkg = PkgInit
    /\ run = RunInit

\* ------------------------------------------ the parts beside the broadcaster

\* Placeholder: no gas value.
NoGas == 0 - 1

\* Gas price and gas adjustment of the node configuration, all one.
UnitConf == [adj_num |-> 1, adj_den |-> 1, price_num |-> 1, price_den |-> 1]

\* No gas estimation is under way.
GasRest(conf) ==
    [conf |-> conf, site |-> "none", pc |-> "idle", hard |-> NoGas,
     fallback |-> NoGas, sim_limit |-> NoGas, sim |-> "none", simulated |-> NoGas,
     limit |-> NoGas, fee |-> NoGas]

\* No ContractTx has been built.
ContractTxRest ==
    [st |-> "none", contract |-> "", messages |-> <<>>, added |-> 0,
     body |-> <<>>, memo |-> "", timeout |-> 0]

\* No drain of the alarms dispatcher has started.
DrainNone ==
    [contract |-> 0, n |-> 0, alarms |-> 0, last |-> 0 - 1, remaining |-> FALSE,
     end |-> "none", second |-> FALSE]

\* The alarms dispatcher has not been started.
AlarmsRest ==
    [pc |-> "off", contract |-> 0, due |-> <<0, 0>>, arrived |-> 0,
     drain |-> DrainNone, prev_end |-> <<"none", "none">>]

\* Id::dex_node_grpc_var has not been called.
GrpcVarRest ==
    [pc |-> "off", input |-> <<>>, network |-> <<>>, search_index |-> 0,
     out |-> <<>>]

\* The networks of the protocols.
Networks == {"osmosis", "neutron"}

\* Placeholder: no client.
NoClient == 1 - 1

\* No task creation context exists.
CreationRest ==
    [pc |-> "off", dex_node_clients |-> [n \in Networks |-> NoClient],
     network |-> "", connects |-> [n \in Networks |-> 0], opened |-> 0,
     calls |-> 0, tasks |-> <<>>]

\* commit_tx has not been called.
CommitRest ==
    [pc |-> "off", sequence |-> 0, before |-> 0, calls |-> 0, result |-> "none",
     check |-> NoCode, deliver |-> NoCode, gas_used |-> 0, gas_wanted |-> 0]

\* The sender ids of the generators' requests (usize), and no sender id.
SenderIds == {0, 1}
NoSender == 0 - 1

\* No transaction has been broadcast by broadcast.rs.
SendBackRest ==
    [pc |-> "off", tx_result_senders |-> [id \in SenderIds |-> "none"], n |-> 0,
     sender_id |-> NoSender, code |-> NoCode, outcome |-> "none",
     was |-> "none", message |-> "none", received |-> FALSE,
     channel_closed |-> NoSender, polling |-> FALSE]

\* No provider has been asked for.
ProviderRest ==
    [pc |-> "off", n |-> 0, main_type |-> "", name |-> "", type |-> "none",
     result |-> "none", unsupported |-> ""]

\* The parts that the broadcaster's runs do not exercise.
GasInit == gas = GasRest(UnitConf)
ContractTxInit == contract_tx = ContractTxRest
AlarmsInit == alarms = AlarmsRest
GrpcVarInit == grpc_var = GrpcVarRest
CreationInit == creation = CreationRest
CommitInit == commit = CommitRest
SendBackInit == send_back = SendBackRest
ProviderInit == provider = ProviderRest
LegacyInit == CommitInit /\ SendBackInit /\ ProviderInit

RestInit ==
    /\ GasInit
    /\ ContractTxInit
    /\ AlarmsInit
    /\ GrpcVarInit
    /\ CreationInit
    /\ LegacyInit

Init ==
    /\ BroadcastInit
    /\ node_codes = {11}
    /\ deadline_passed = {}
    /\ LockInit
    /\ RestInit

\* --------------------------------------------------------------- tasks
\* A task builds a package and sends it on the queue, then awaits the feedback.
Enqueue ==
    /\ senders_alive
    /\ next_id <= MaxPackages
    /\ Cardinality({p \in Packages : feedback[p].st = "pending"}) < NumTasks
    /\ transaction_rx' = Append(transaction_rx, next_id)
    /\ feedback' = [feedback EXCEPT ![next_id] = [st |-> "pending", code |-> NoCode]]
    /\ next_id' = next_id + 1
    /\ UNCHANGED <<other_vars, node, chain_seq, senders_alive, pc, cur, sequence_number,
                   consecutive_errors, response, att, pkg, run>>

\* A task stops waiting and drops the receiver of a package's feedback channel.
DropReceiver ==
    \E p \in Packages :
        /\ feedback[p].st = "pending"
        /\ run.faults < MaxFaults
        /\ feedback' = [feedback EXCEPT ![p] = [st |-> "rx_dropped", code |-> NoCode]]
        /\ run' = Keep(run, [run EXCEPT !.faults = @ + 1])
        /\ UNCHANGED <<other_vars, node, chain_seq, senders_alive, next_id, transaction_rx, pc, cur,
                       sequence_number, consecutive_errors, response, att, pkg>>

\* Every task is gone: all senders of the queue are dropped.
CloseQueue ==
    /\ senders_alive
    /\ senders_alive' = FALSE
    /\ UNCHANGED <<other_vars, node, chain_seq, next_id, transaction_rx, feedback, pc, cur,
                   sequence_number, consecutive_errors, response, att, pkg, run>>

\* ------------------------------------------------------ Broadcast::run
\* Variant: the queue hands out the package sent last.
Recv_NewestFirst ==
    LET n == Len(transaction_rx) IN
    /\ pc = "recv"
    /\ transaction_rx # <<>>
    /\ cur' = transaction_rx[n]
    /\ transaction_rx' = SubSeq(transaction_rx, 1, n - 1)
    /\ pc' = "sign"
    /\ pkg' = Keep(pkg, [id |-> transaction_rx[n], seq0 |-> sequence_number,
                         ce0 |-> consecutive_errors, chain0 |-> chain_seq,
                         broadcasts |-> 0, n32 |-> 0, nerr |-> 0, nfetch |-> 0])
    /\ UNCHANGED <<other_vars, node, chain_seq, senders_alive, next_id, feedback,
                   sequence_number, consecutive_errors, response, att, run>>

\* transaction_rx.recv() hands out the next package; broadcast_tx starts.
Recv ==
    /\ pc = "recv"
    /\ transaction_rx # <<>>
    /\ cur' = Head(transaction_rx)
    /\ transaction_rx' = Tail(transaction_rx)
    /\ pc' = "sign"
    /\ pkg' = Keep(pkg, [id |-> Head(transaction_rx), seq0 |-> sequence_number,
                         ce0 |-> consecutive_errors, chain0 |-> chain_seq,
                         broadcasts |-> 0, n32 |-> 0, nerr |-> 0, nfetch |-> 0])
    /\ UNCHANGED <<other_vars, node, chain_seq, senders_alive, next_id, feedback,
                   sequence_number, consecutive_errors, response, att, run>>

\* Variant: an empty queue is taken for a closed one (try_recv for recv).
RecvClosed_OnEmpty ==
    /\ pc = "recv"
    /\ transaction_rx = <<>>
    /\ pc' = "stopped"
    /\ UNCHANGED <<other_vars, node, chain_seq, senders_alive, next_id, transaction_rx,
                   feedback, cur, sequence_number, consecutive_errors, response,
                   att, pkg, run>>

\* recv() on a closed and empty queue: "Transaction receiving channel closed!"
RecvClosed ==
    /\ pc = "recv"
    /\ transaction_rx = <<>>
    /\ ~senders_alive
    /\ pc' = "stopped"
    /\ UNCHANGED <<other_vars, node, chain_seq, senders_alive, next_id, transaction_rx, feedback, cur,
                   sequence_number, consecutive_errors, response, att, pkg, run>>

\* The duration Broadcast::run sleeps for after broadcast_tx has returned.
SleepAfterPackage == "delay_duration"

\* sleep(self.delay_duration) after a package, then the next recv().
Delay ==
    /\ pc = "delay"
    /\ pc' = "recv"
    /\ att' = AttInit
    /\ pkg' = PkgInit
    /\ run' = Keep(run, [run EXCEPT !.slept = SleepAfterPackage])
    /\ UNCHANGED <<other_vars, node, chain_seq, senders_alive, next_id, transaction_rx,
                   feedback, cur, sequence_number, consecutive_errors, response>>

\* ----------------------------------------------- Broadcast::broadcast_tx
\* simulate_and_sign_tx succeeds: the transaction is signed with the current
\* sequence number and handed to broadcast_with_expiration.
SimulateAndSign ==
    /\ pc = "sign"
    /\ run.broadcasts < MaxBroadcasts
    /\ pc' = "broadcast"
    /\ att' = Keep(att, [AttInit EXCEPT !.signed = sequence_number,
                                        !.ce_before = consecutive_errors,
                                        !.outcome = "pending"])
    /\ pkg' = Keep(pkg, [pkg EXCEPT !.broadcasts = @ + 1])
    /\ run' = Keep(run, [run EXCEPT !.broadcasts = @ + 1,
                                    !.prev_signed = run.last_signed,
                                    !.last_signed = sequence_number,
                                    !.fetch_between = run.fetch_since_sign,
                                    !.fetch_since_sign = FALSE])
    /\ UNCHANGED <<other_vars, node, chain_seq, senders_alive, next_id, transaction_rx, feedback, cur,
                   sequence_number, consecutive_errors, response>>

\* Variant: a signing failure is logged and the package retried, like a
\* transport error.
SignFail_Retries ==
    /\ pc = "sign"
    /\ pc' = "retry_sleep"
    /\ att' = Keep(att, [AttInit EXCEPT !.outcome = "sign_failed",
                                        !.signed = sequence_number,
                                        !.ce_before = consecutive_errors])
    /\ UNCHANGED <<other_vars, node, chain_seq, senders_alive, next_id, transaction_rx,
                   feedback, cur, sequence_number, consecutive_errors, response,
                   pkg, run>>

\* simulate_and_sign_tx fails to sign: broadcast_tx returns the error, run ends.
SignFail ==
    /\ pc = "sign"
    /\ pc' = "stopped"
    /\ feedback' = DropSender(cur)
    /\ cur' = NoPackage
    /\ att' = Keep(att, [AttInit EXCEPT !.outcome = "sign_failed",
                                        !.signed = sequence_number,
                                        !.ce_before = consecutive_errors])
    /\ UNCHANGED <<other_vars, node, chain_seq, senders_alive, next_id, transaction_rx,
                   sequence_number, consecutive_errors, response, pkg, run>>

\* broadcast_with_expiration returns None: the deadline fired first.
Expired ==
    /\ pc = "broadcast"
    /\ pc' = "delay"
    /\ feedback' = DropSender(cur)
    /\ cur' = NoPackage
    /\ run.faults < MaxFaults
    /\ att' = Keep(att, [att EXCEPT !.outcome = "expired"])
    /\ run' = Keep(run, [run EXCEPT !.faults = @ + 1])
    /\ consecutive_errors' = ConsecutiveErrorsAfterExpiration(consecutive_errors)
    /\ \E admitted \in BOOLEAN :
         chain_seq' = ChainAfterLostBroadcast(att.signed, admitted)
    /\ UNCHANGED <<other_vars, node, senders_alive, next_id, transaction_rx, sequence_number,
                   response, pkg>>

\* The broadcast call returns Err: break 'process, then the retry sleep.
TransportError ==
    /\ pc = "broadcast"
    /\ pc' = "retry_sleep"
    /\ att' = Keep(att, [att EXCEPT !.outcome = "transport"])
    /\ pkg' = Keep(pkg, [pkg EXCEPT !.nerr = @ + 1])
    /\ run.faults < MaxFaults
    /\ run' = Keep(run, [run EXCEPT !.bad_run = @ + 1, !.faults = @ + 1])
    /\ consecutive_errors' =
         ConsecutiveErrorsAfterTransportError(consecutive_errors)
    /\ \E admitted \in BOOLEAN :
         chain_seq' = ChainAfterLostBroadcast(att.signed, admitted)
    /\ UNCHANGED <<other_vars, node, senders_alive, next_id, transaction_rx, feedback, cur,
                   sequence_number, response>>

\* Variant: the result of send is not ignored: a send to a task that dropped
\* its receiver is an error that ends run.
Finish_SendMustSucceed(code) ==
    IF DeliversFeedback(code)
    THEN /\ feedback' = SendFeedback(cur, code)
         /\ cur' = NoPackage
         /\ pc' = IF feedback[cur].st = "pending" THEN "delay" ELSE "stopped"
    ELSE /\ pc' = "retry_sleep"
         /\ UNCHANGED <<feedback, cur>>

\* Variant: every response is sent to the task, a code-32 one before its retry.
Finish_SendsEveryResponse(code) ==
    /\ feedback' = SendFeedback(cur, code)
    /\ IF DeliversFeedback(code)
       THEN cur' = NoPackage /\ pc' = "delay"
       ELSE pc' = "retry_sleep" /\ UNCHANGED cur

\* The tail of 'process and of the loop body, for a response with `code`:
\* send the feedback and leave, or go to the retry sleep.
Finish(code) ==
    IF DeliversFeedback(code)
    THEN /\ feedback' = SendFeedback(cur, code)
         /\ cur' = NoPackage
         /\ pc' = "delay"
    ELSE /\ pc' = "retry_sleep"
         /\ UNCHANGED <<feedback, cur>>

\* The broadcast call returns Ok(response) with `code`.
Response ==
    /\ pc = "broadcast"
    /\ \E code \in NodeAnswers(att.signed) :
        LET seq1 == SequenceAfterResponse(sequence_number, code)
            ce1 == NextConsecutiveErrors(consecutive_errors, code)
            fetch == ForcesFetch(code, ce1)
        IN /\ sequence_number' = seq1
           /\ consecutive_errors' = ce1
           /\ chain_seq' = IF node = "chain" /\ code = CodeOk
                           THEN chain_seq + 1 ELSE chain_seq
           /\ att' = Keep(att, [att EXCEPT
                        !.outcome = "response", !.code = code,
                        !.fetched = IF fetch THEN "calling" ELSE "none"])
           /\ pkg' = Keep(pkg, [pkg EXCEPT
                        !.n32 = IF code = SIGNATURE_VERIFICATION_ERROR_CODE
                                THEN @ + 1 ELSE @,
                        !.nfetch = IF fetch THEN @ + 1 ELSE @])
           /\ run' = Keep(run, [run EXCEPT
                        !.err_run = IF code = CodeOk THEN 0 ELSE @ + 1,
                        !.bad_run = IF code = CodeOk THEN 0 ELSE @ + 1,
                        !.fetch_run = IF code = CodeOk THEN 0
                                      ELSE IF fetch THEN @ + 1 ELSE @])
           /\ IF fetch
              THEN /\ pc' = "fetch"
                   /\ response' = code
                   /\ UNCHANGED <<feedback, cur>>
              ELSE /\ Finish(code)
                   /\ response' = NoCode
    /\ UNCHANGED <<other_vars, node, senders_alive, next_id, transaction_rx>>

\* Variant: the increment for the response is applied after the fetch, to the
\* node's value.
FetchOk_ThenIncrements ==
    /\ pc = "fetch"
    /\ \E v \in NodeSequences :
        /\ sequence_number' = SequenceAfterResponse(v, response)
        /\ att' = Keep(att, [att EXCEPT !.fetched = "ok", !.fetch_value = v])
    /\ run' = Keep(run, [run EXCEPT !.fetch_since_sign = TRUE])
    /\ Finish(response)
    /\ response' = NoCode
    /\ UNCHANGED <<other_vars, node, chain_seq, senders_alive, next_id, transaction_rx,
                   consecutive_errors, pkg>>

\* fetch_sequence_number returns Ok: the signer's counter is overwritten with
\* the node's value, then the held response is handled to the end.
FetchOk ==
    /\ pc = "fetch"
    /\ \E v \in NodeSequences :
        /\ sequence_number' = v
        /\ att' = Keep(att, [att EXCEPT !.fetched = "ok", !.fetch_value = v])
    /\ run' = Keep(run, [run EXCEPT !.fetch_since_sign = TRUE])
    /\ Finish(response)
    /\ response' = NoCode
    /\ UNCHANGED <<other_vars, node, chain_seq, senders_alive, next_id, transaction_rx,
                   consecutive_errors, pkg>>

\* Variant: the failure of the fetch is logged and the held response handled
\* to the end.
FetchFail_Continues ==
    /\ pc = "fetch"
    /\ Finish(response)
    /\ response' = NoCode
    /\ att' = Keep(att, [att EXCEPT !.fetched = "failed"])
    /\ UNCHANGED <<other_vars, node, chain_seq, senders_alive, next_id, transaction_rx,
                   sequence_number, consecutive_errors, pkg, run>>

\* fetch_sequence_number returns Err: "Failed to fetch sequence number!"
FetchFail ==
    /\ pc = "fetch"
    /\ pc' = "stopped"
    /\ feedback' = DropSender(cur)
    /\ cur' = NoPackage
    /\ response' = NoCode
    /\ att' = Keep(att, [att EXCEPT !.fetched = "failed"])
    /\ UNCHANGED <<other_vars, node, chain_seq, senders_alive, next_id, transaction_rx,
                   sequence_number, consecutive_errors, pkg, run>>

\* Variant: the loop of broadcast_tx sleeps for the pacing delay.
SleepAfterAttempt_PacingDelay == "delay_duration"

\* The duration the loop of broadcast_tx sleeps for at the end of an iteration.
SleepAfterAttempt == "retry_delay_duration"

\* sleep(self.retry_delay_duration), then the loop signs the package again.
RetrySleep ==
    /\ pc = "retry_sleep"
    /\ pc' = "sign"
    /\ run' = Keep(run, [run EXCEPT !.slept = SleepAfterAttempt])
    /\ UNCHANGED <<other_vars, node, chain_seq, senders_alive, next_id, transaction_rx,
                   feedback, cur, sequence_number, consecutive_errors, response,
                   att, pkg>>

\* Two tasks have each enqueued a package before the broadcaster's first
\* recv(); the node is a mock that rejects with code 19.
InitIsolation ==
    /\ node = "mock"
    /\ chain_seq = 0
    /\ senders_alive = TRUE
    /\ next_id = 3
    /\ transaction_rx = <<1, 2>>
    /\ feedback = [p \in Packages |->
                     IF p < 3 THEN [st |-> "pending", code |-> NoCode] ELSE FbInit]
    /\ pc = "recv"
    /\ cur = NoPackage
    /\ sequence_number \in InitSequences
    /\ consecutive_errors = 0
    /\ response = NoCode
    /\ att = AttInit
    /\ pkg = PkgInit
    /\ run = RunInit
    /\ node_codes = {19}
    /\ deadline_passed = {}
    /\ LockInit
    /\ RestInit

Next ==
    \/ Enqueue
    \/ DropReceiver
    \/ CloseQueue
    \/ Recv
    \/ RecvClosed
    \/ Delay
    \/ SimulateAndSign
    \/ SignFail
    \/ Expired
    \/ TransportError
    \/ Response
    \/ FetchOk
    \/ FetchFail
    \/ RetrySleep

Spec == Init /\ [][Next]_vars

\* The same broadcaster, started with the packages of two tasks queued together.
SpecIsolation == InitIsolation /\ [][Next]_vars

\* ===================================================================
\* Properties
\* ===================================================================

\* A broadcast attempt has ended: its outcome is known and no forced fetch of
\* the attempt is still in flight.
AttemptEnded ==
    /\ att.outcome \in {"expired", "transport", "response"}
    /\ att.fetched # "calling"

\* The attempt's outcome is a response with code 0 or code 32.
AdmittedOrSigError ==
    /\ att.outcome = "response"
    /\ att.code \in {CodeOk, SIGNATURE_VERIFICATION_ERROR_CODE}

\* Something was sent on package p's feedback channel, with code c.
Sent(p, c) ==
    /\ feedback[p].st \in {"delivered", "discarded"}
    /\ feedback[p].code = c

\* Nothing has been sent on package p's feedback channel, whose sender is
\* still held by the broadcaster.
Unsent(p) ==
    feedback[p].st \in {"pending", "rx_dropped"}

\* C1 as stated: after every broadcast attempt the sequence number is the value
\* the attempt signed with plus 1 if and only if the outcome is code 0 or code
\* 32, and otherwise is the value the attempt signed with.
C1_SequenceByOutcome ==
    AttemptEnded =>
        sequence_number = att.signed + (IF AdmittedOrSigError THEN 1 ELSE 0)

\* C1 amended: the same, except for an attempt that exhausted the error budget
\* and whose forced fetch succeeded: there the sequence number is the value
\* the node reported, whatever the outcome's code.
C1_SequenceByOutcomeOrFetch ==
    AttemptEnded =>
        IF att.fetched = "ok"
        THEN sequence_number = att.fetch_value
        ELSE sequence_number = att.signed + (IF AdmittedOrSigError THEN 1 ELSE 0)

\* C1 witness: an attempt answered with code 32, no forced fetch, has ended with
\* the sequence number advanced by one.
C1_Witness ==
    /\ AttemptEnded
    /\ att.code = SIGNATURE_VERIFICATION_ERROR_CODE
    /\ att.fetched = "none"
    /\ sequence_number = att.signed + 1

C3_Gap == pkg.chain0 - pkg.seq0

C3_Applies ==
    /\ node = "chain"
    /\ pkg.id # NoPackage
    /\ C3_Gap \in 1..(ErrorBudget - 1)
    /\ pkg.nerr = 0
    /\ att.outcome \notin {"expired", "transport"}

\* C3: signature-verification recovery. With the local sequence number k below
\* the chain's (1 <= k < 5), the i-th broadcast of the package is signed with
\* local + i - 1, at most k + 1 broadcasts are issued, nothing is sent to the
\* task before the package ends and a code-32 response never is; when the
\* package ends with code 0, exactly k + 1 broadcasts were issued, k of them
\* answered with code 32, the signer is at the chain's value plus 1, the
\* code-0 response is what was sent, and the consecutive-error counter is <= 1.
C3_SignatureRecovery ==
    /\ \A p \in Packages : feedback[p].code # SIGNATURE_VERIFICATION_ERROR_CODE
    /\ C3_Applies =>
        /\ pkg.broadcasts <= C3_Gap + 1
        /\ pc = "broadcast" => att.signed = pkg.seq0 + pkg.broadcasts - 1
        /\ cur # NoPackage => Unsent(cur)
        /\ (att.outcome = "response" /\ att.code = CodeOk) =>
            /\ pkg.broadcasts = C3_Gap + 1
            /\ pkg.n32 = C3_Gap
            /\ sequence_number = pkg.chain0 + 1
            /\ Sent(pkg.id, CodeOk)
            /\ consecutive_errors <= 1

\* C3 witness: a package received two below the chain's value has ended with
\* code 0 after three broadcasts.
C3_Witness ==
    /\ C3_Applies
    /\ C3_Gap = 2
    /\ att.outcome = "response"
    /\ att.code = CodeOk
    /\ pkg.broadcasts = 3
    /\ feedback[pkg.id] = [st |-> "delivered", code |-> CodeOk]

C5_ExpirationPurity ==
    att.outcome = "expired" =>
        /\ sequence_number = att.signed
        /\ consecutive_errors = att.ce_before
        /\ feedback[pkg.id] \in {[st |-> "closed", code |-> NoCode],
                                 [st |-> "dead", code |-> NoCode]}
        /\ cur = NoPackage
        /\ \A i \in 1..Len(transaction_rx) : transaction_rx[i] # pkg.id
        /\ pc = "delay"

\* C5 witness: a package has expired after an earlier error was counted, its
\* task observes closure, and the next package waits in the queue.
C5_Witness ==
    /\ att.outcome = "expired"
    /\ att.ce_before > 0
    /\ feedback[pkg.id].st = "closed"
    /\ transaction_rx # <<>>
\* The attempt ended with a response whose code is nonzero and not 32.
C6_Applies ==
    /\ AttemptEnded
    /\ att.outcome = "response"
    /\ att.code \in OtherCodes

\* C6 as stated: for a response with a nonzero code other than 32 the sequence
\* number is not incremented, the consecutive-error counter is incremented
\* (modulo the budget), the response is sent on the package's feedback channel,
\* the package is not retried and the broadcaster goes on to the next package.
C6_OtherCodeAlwaysDelivered ==
    C6_Applies =>
        /\ att.fetched # "ok" => sequence_number = att.signed
        /\ consecutive_errors = (att.ce_before + 1) % ErrorBudget
        /\ Sent(pkg.id, att.code)
        /\ cur = NoPackage
        /\ pc = "delay"

\* C6 amended: the same, unless the response exhausts the error budget (the
\* counter wraps from 4 to 0): then fetch_sequence_number is called first; if
\* it succeeds the sequence number is the node's value and the response is sent
\* as before; if it fails the broadcaster terminates with the error, the
\* response is never sent and no further package is handled.
C6_OtherCodeDeliveredUnlessFetchFails ==
    C6_Applies =>
        /\ consecutive_errors = (att.ce_before + 1) % ErrorBudget
        /\ cur = NoPackage
        /\ att.fetched # "none" <=> att.ce_before = ErrorBudget - 1
        /\ att.fetched = "none" =>
            /\ sequence_number = att.signed
            /\ Sent(pkg.id, att.code)
            /\ pc = "delay"
        /\ att.fetched = "ok" =>
            /\ sequence_number = att.fetch_value
            /\ Sent(pkg.id, att.code)
            /\ pc = "delay"
        /\ att.fetched = "failed" =>
            /\ sequence_number = att.signed
            /\ feedback[pkg.id].st \in {"closed", "dead"}
            /\ pc = "stopped"

\* C6 witness: a code-11 response was delivered to a waiting task, counted as
\* the second consecutive error, and the next package waits in the queue.
C6_Witness ==
    /\ C6_Applies
    /\ att.fetched = "none"
    /\ consecutive_errors = 2
    /\ feedback[pkg.id].st = "delivered"
    /\ transaction_rx # <<>>

\* The errors counted while the package has been handled: its code-32
\* responses and, if it ended with one, its other nonzero response.
C7_PackageErrors ==
    pkg.n32 + (IF att.outcome = "response" /\ att.code \in OtherCodes
               THEN 1 ELSE 0)

\* C7 as stated: while one package is handled, all its code-32 retries
\* included, the counter is incremented at most once, and a fetch forced by a
\* code-32 response does not come from five retries of one package.
C7_OneIncrementPerPackage ==
    /\ (pkg.id # NoPackage /\ pkg.nfetch = 0) =>
            consecutive_errors <= pkg.ce0 + 1
    /\ (pkg.nfetch > 0 /\ att.code = SIGNATURE_VERIFICATION_ERROR_CODE) =>
            pkg.n32 < ErrorBudget

\* C7 amended: the counter is incremented at most once per broadcast attempt,
\* but once for every code-32 response: while a package is handled the counter
\* is (its value at receipt + the package's nonzero responses so far) mod 5, a
\* fetch is forced at each wrap, so five code-32 retries of one package force
\* a re-fetch.
C7_OneIncrementPerAttempt ==
    /\ att.outcome = "response" =>
            consecutive_errors =
                IF att.code = CodeOk THEN 0
                ELSE (att.ce_before + 1) % ErrorBudget
    /\ (pkg.id # NoPackage /\ att.code # CodeOk) =>
            /\ consecutive_errors = (pkg.ce0 + C7_PackageErrors) % ErrorBudget
            /\ pkg.nfetch = (pkg.ce0 + C7_PackageErrors) \div ErrorBudget

\* C7 witness: five code-32 retries of one package, received with the counter
\* at 0, have forced a fetch.
C7_Witness ==
    /\ pkg.ce0 = 0
    /\ pkg.n32 = ErrorBudget
    /\ pkg.nfetch = 1
    /\ consecutive_errors = 0

\* C8 as stated: the sequence number a broadcast is signed with is greater
\* than or equal to the one the broadcast before it was signed with.
C8_SignedMonotonic ==
    run.prev_signed # NoSeq => run.prev_signed <= run.last_signed

\* C8 amended: the same for two consecutive broadcasts with no forced fetch
\* between them; a forced fetch sets the sequence number to the value the node
\* reports, which may be lower.
C8_SignedMonotonicBetweenFetches ==
    (run.prev_signed # NoSeq /\ ~run.fetch_between) =>
        run.prev_signed <= run.last_signed

\* C8 witness: a broadcast signed with a higher number than the one before
\* it, no fetch in between.
C8_Witness ==
    /\ run.prev_signed # NoSeq
    /\ ~run.fetch_between
    /\ run.last_signed > run.prev_signed

\* Five consecutive packages have each got one response with the same nonzero
\* code other than 32 (code 11), counted from a counter of 0; the fifth is the
\* package whose attempt is recorded.
C9_FiveReverts ==
    /\ pkg.id >= ErrorBudget
    /\ run.err_run = ErrorBudget
    /\ att.outcome = "response"
    /\ att.code \in OtherCodes
    /\ \A q \in (pkg.id - ErrorBudget + 1)..(pkg.id - 1) : Sent(q, att.code)

\* C9 as stated: all five responses are delivered, the fetch is observed after
\* the fifth delivery, the counter is then 0 and the sequence number is the
\* node's value.
C9_FetchAfterFifthDelivery ==
    C9_FiveReverts =>
        /\ att.fetched # "none"
        /\ Sent(pkg.id, att.code)
        /\ consecutive_errors = 0
        /\ att.fetched = "ok" => sequence_number = att.fetch_value

\* C9 amended: the first four responses are delivered as they arrive; on the
\* fifth the counter is reset to 0 and fetch_sequence_number is called before
\* that response is delivered. If the fetch succeeds the sequence number is
\* the node's value and the fifth response is then delivered; if it fails the
\* broadcaster terminates and the fifth response is never delivered.
C9_FetchBeforeFifthDelivery ==
    C9_FiveReverts =>
        /\ att.fetched # "none"
        /\ run.fetch_run = 1
        /\ consecutive_errors = 0
        /\ att.fetched = "calling" => (pc = "fetch" /\ Unsent(pkg.id))
        /\ att.fetched = "ok" =>
            /\ sequence_number = att.fetch_value
            /\ Sent(pkg.id, att.code)
            /\ pc = "delay"
        /\ att.fetched = "failed" =>
            /\ feedback[pkg.id].st \in {"closed", "dead"}
            /\ pc = "stopped"

\* C9 witness: the fifth code-11 response has been delivered after a
\* successful fetch.
C9_Witness ==
    /\ C9_FiveReverts
    /\ att.fetched = "ok"
    /\ feedback[pkg.id].st = "delivered"
    /\ sequence_number = att.fetch_value

\* C10: a fetch_sequence_number call is made only by an attempt whose
\* nonzero-code response was the fifth consecutive error (counter 4 before
\* it, 0 after it), never after a code-0 response, an expiration or a
\* transport error; an attempt without a fetch leaves the sequence number at
\* the signed value or that value plus one, and between the receipt of a
\* package and its first signing the sequence number does not change.
C10_FetchOnlyOnExhaustion ==
    /\ (pc = "fetch" \/ att.fetched # "none") =>
        /\ att.outcome = "response"
        /\ att.code # CodeOk
        /\ att.ce_before = ErrorBudget - 1
        /\ consecutive_errors = 0
        /\ run.err_run > 0
        /\ run.err_run % ErrorBudget = 0
    /\ att.fetch_value # NoSeq => att.fetched = "ok"
    /\ (AttemptEnded /\ att.fetched = "none") =>
        sequence_number \in {att.signed, att.signed + 1}
    /\ (pc = "sign" /\ pkg.broadcasts = 0) => sequence_number = pkg.seq0

\* C10 witness: the forced fetch is in flight after the fifth consecutive
\* error.
C10_Witness ==
    /\ pc = "fetch"
    /\ att.ce_before = ErrorBudget - 1
    /\ run.err_run = ErrorBudget

\* The packages waiting in the queue.
Queued == {transaction_rx[i] : i \in 1..Len(transaction_rx)}

\* Package p's feedback channel is finished: a response was sent on it, or its
\* sender was dropped with nothing sent.
Ended(p) ==
    feedback[p].st \in {"delivered", "discarded", "closed", "dead"}

\* The broadcaster has received package p and is done with it.
Handled(p) ==
    p < next_id /\ p \notin Queued /\ p # cur

\* C11: the feedback channel of every package the broadcaster is done with is
\* finished in exactly one way: one response on it (delivered to the waiting
\* task, or discarded if the task dropped its receiver) or closure with nothing
\* sent; until then nothing is sent on it. A finished channel never changes
\* again, so no package yields a second response; a response is delivered only
\* by a step whose broadcast call returned a response, with that response's
\* code, and after a transport error nothing has been sent.
C11_OneResponseOrClosure ==
    /\ [](\A p \in Packages :
            /\ Handled(p) => Ended(p)
            /\ (p \in Queued \/ p = cur) => Unsent(p)
            /\ feedback[p].st \in {"delivered", "discarded"}
                    <=> feedback[p].code \in Codes
            /\ feedback[p].code \in Codes \cup {NoCode})
    /\ [](att.outcome = "transport" => Unsent(pkg.id))
    /\ [][\A p \in Packages :
            /\ Ended(p) => feedback'[p] = feedback[p]
            /\ (feedback'[p].st = "delivered" /\ feedback[p].st # "delivered") =>
                    /\ feedback[p].st = "pending"
                    /\ att'.outcome = "response"
                    /\ feedback'[p].code = att'.code]_vars

\* C11 witness: a package's response has been delivered to its waiting task
\* while the task of an earlier package observed closure.
C11_Witness ==
    /\ pkg.nerr = 0
    /\ att.outcome = "response"
    /\ feedback[pkg.id].st = "delivered"
    /\ \E q \in Packages : q < pkg.id /\ feedback[q].st = "closed"

\* Packages 1 (task B) and 2 (task A) were queued together; each was broadcast
\* once; B's broadcast was answered with code 0 and then A's with code 19; no
\* task dropped its receiver.
C12_Scenario ==
    /\ pkg.id = 2
    /\ pkg.broadcasts = 1
    /\ run.broadcasts = 2
    /\ run.faults = 0
    /\ Sent(1, CodeOk)
    /\ att.outcome = "response"
    /\ att.code = 19

\* C12: task isolation and reply correlation. A step that sends a response
\* sends it on the channel of the package being served, whose broadcast
\* returned it, with that response's code, and leaves every other channel
\* alone. With B's and A's packages queued together, B's broadcast answered
\* with code 0 and A's with code 19: B receives code 0, A receives code 19,
\* the sequence number is the one B's transaction was signed with plus 1, and
\* the consecutive-error counter is 1.
C12_IsolationAndCorrelation ==
    /\ [][\A p \in Packages :
            (feedback'[p].code \in Codes /\ feedback[p].code = NoCode) =>
                /\ p = cur
                /\ p = pkg'.id
                /\ att'.outcome = "response"
                /\ feedback'[p].code = att'.code
                /\ \A q \in Packages \ {p} : feedback'[q] = feedback[q]]_vars
    /\ [](C12_Scenario =>
            /\ feedback[1] = [st |-> "delivered", code |-> CodeOk]
            /\ feedback[2] = [st |-> "delivered", code |-> 19]
            /\ sequence_number = run.prev_signed + 1
            /\ consecutive_errors = 1)

\* C12 witness: both tasks have their own response, B code 0 and A code 19.
C12_Witness ==
    /\ C12_Scenario
    /\ feedback[1] = [st |-> "delivered", code |-> CodeOk]
    /\ feedback[2] = [st |-> "delivered", code |-> 19]
    /\ consecutive_errors = 1

\* The package being served, if any, and the packages still queued: the
\* packages the broadcaster has yet to finish.
Outstanding == Queued \cup (IF cur = NoPackage THEN {} ELSE {cur})

\* C14: packages are handled one at a time, in the order they were enqueued
\* (packages are numbered as they are sent on the queue). A package is held
\* exactly from its recv() to its end; at recv(), in the pacing delay and after
\* termination none is held, and every package handed out earlier has ended
\* (response sent, expired, or dropped by a fatal error). The queue keeps the
\* enqueue order, the package held was enqueued before every queued one, and
\* every package already handled before the held and the queued ones.
C14_OneAtATimeInOrder ==
    /\ cur # NoPackage <=> pc \in {"sign", "broadcast", "fetch", "retry_sleep"}
    /\ cur # NoPackage => (cur = pkg.id /\ cur \notin Queued /\ Unsent(cur))
    /\ \A i, j \in 1..Len(transaction_rx) :
            i < j => transaction_rx[i] < transaction_rx[j]
    /\ \A q \in Queued : q < next_id /\ (cur # NoPackage => cur < q)
    /\ \A p \in Packages : Handled(p) =>
            /\ Ended(p)
            /\ \A q \in Outstanding : p < q

\* C14 witness: the second package is being broadcast after the first has
\* ended, while the third waits in the queue.
C14_Witness ==
    /\ pc = "broadcast"
    /\ cur = 2
    /\ Ended(1)
    /\ transaction_rx = <<3>>

\* The packages a live task is awaiting the feedback of, and the packages whose
\* task has dropped its receiver and not been answered since.
Awaited == {p \in Packages : feedback[p].st = "pending"}

Abandoned == {p \in Packages : feedback[p].st = "rx_dropped"}

\* The number of packages in the queue plus the one being served.
Depth == Len(transaction_rx) + (IF cur = NoPackage THEN 0 ELSE 1)

BroadcasterStep ==
    \/ Recv \/ RecvClosed \/ Delay \/ SimulateAndSign \/ SignFail \/ Expired
    \/ TransportError \/ Response \/ FetchOk \/ FetchFail \/ RetrySleep

\* C17: a signing failure is fatal to the broadcaster. After an attempt whose
\* signing failed, run has terminated: the broadcaster takes no further step,
\* so the package is not retried and no other package is received; the
\* package's sender was dropped with nothing sent and the package is not
\* queued again; the sequence number and the consecutive-error counter are
\* what they were when the attempt started.
C17_SigningFailureFatal ==
    att.outcome = "sign_failed" =>
        /\ pc = "stopped"
        /\ ~ENABLED BroadcasterStep
        /\ cur = NoPackage
        /\ pkg.id \notin Queued
        /\ feedback[pkg.id] \in {[st |-> "closed", code |-> NoCode],
                                 [st |-> "dead", code |-> NoCode]}
        /\ sequence_number = att.signed
        /\ consecutive_errors = att.ce_before

\* C17 witness: the signing of a retry failed, after a code-32 response had
\* advanced the sequence number; the task observes closure and the next
\* package stays in the queue.
C17_Witness ==
    /\ att.outcome = "sign_failed"
    /\ pkg.n32 = 1
    /\ sequence_number = pkg.seq0 + 1
    /\ feedback[pkg.id].st = "closed"
    /\ transaction_rx # <<>>

\* run has terminated, and not by an error of broadcast_tx: by recv().
StoppedByRecv ==
    /\ pc = "stopped"
    /\ att.outcome # "sign_failed"
    /\ att.fetched # "failed"

\* C18: at recv(), with the queue closed (every sender dropped) and empty, the
\* only step the broadcaster can take is to terminate; with a package queued it
\* receives the package, closed or not; with the queue open and empty it does
\* neither and waits. So whenever run has terminated by recv(), every sender
\* was dropped and nothing was left in the queue.
C18_TerminatesOnlyWhenClosed ==
    /\ pc = "recv" =>
        /\ ENABLED RecvClosed <=> (transaction_rx = <<>> /\ ~senders_alive)
        /\ ENABLED Recv <=> transaction_rx # <<>>
        /\ ENABLED BroadcasterStep <=> (transaction_rx # <<>> \/ ~senders_alive)
    /\ StoppedByRecv => (~senders_alive /\ transaction_rx = <<>>)

\* C18 witness: run has terminated at recv() on the closed and empty queue,
\* after a package was handled.
C18_Witness ==
    /\ StoppedByRecv
    /\ ~senders_alive
    /\ transaction_rx = <<>>
    /\ feedback[1].st = "delivered"

\* The attempt ended with a response whose code is not 32, for a package whose
\* task had dropped its feedback receiver.
C19_Applies ==
    /\ AttemptEnded
    /\ att.outcome = "response"
    /\ att.code # SIGNATURE_VERIFICATION_ERROR_CODE
    /\ feedback[pkg.id].st \in {"discarded", "dead"}

\* C19 as stated: the sequence-number and counter updates of the response are
\* applied, the response is discarded without an error, and the broadcaster
\* continues with the next package.
C19_DiscardedAndContinues ==
    C19_Applies =>
        /\ consecutive_errors = NextConsecutiveErrors(att.ce_before, att.code)
        /\ att.fetched # "ok" =>
                sequence_number = SequenceAfterResponse(att.signed, att.code)
        /\ feedback[pkg.id] = [st |-> "discarded", code |-> att.code]
        /\ cur = NoPackage
        /\ pc = "delay"

\* C19 amended: the updates are applied as for a waiting task, and the failed
\* send is ignored: the response is discarded and the broadcaster goes on to
\* the pacing delay and the next package; unless the response exhausts the
\* error budget and the forced fetch fails: then, as for a waiting task, run
\* terminates with the fetch's error before anything is sent.
C19_DiscardedUnlessFetchFails ==
    C19_Applies =>
        /\ consecutive_errors = NextConsecutiveErrors(att.ce_before, att.code)
        /\ cur = NoPackage
        /\ att.fetched # "none" <=> ForcesFetch(att.code, consecutive_errors)
        /\ att.fetched = "none" =>
            /\ sequence_number = SequenceAfterResponse(att.signed, att.code)
            /\ feedback[pkg.id] = [st |-> "discarded", code |-> att.code]
            /\ pc = "delay"
        /\ att.fetched = "ok" =>
            /\ sequence_number = att.fetch_value
            /\ feedback[pkg.id] = [st |-> "discarded", code |-> att.code]
            /\ pc = "delay"
        /\ att.fetched = "failed" =>
            /\ sequence_number = SequenceAfterResponse(att.signed, att.code)
            /\ feedback[pkg.id] = [st |-> "dead", code |-> NoCode]
            /\ pc = "stopped"

\* C19 witness: a code-0 response to a package whose task had dropped its
\* receiver was discarded, the sequence number advanced and the counter reset;
\* the next package waits in the queue.
C19_Witness ==
    /\ C19_Applies
    /\ att.code = CodeOk
    /\ att.ce_before > 0
    /\ consecutive_errors = 0
    /\ sequence_number = att.signed + 1
    /\ feedback[pkg.id].st = "discarded"
    /\ pc = "delay"
    /\ transaction_rx # <<>>

\* The last attempt is one the loop of broadcast_tx retries: a transport error
\* or a code-32 response.
Retried ==
    \/ att.outcome = "transport"
    \/ att.outcome = "response" /\ att.code = SIGNATURE_VERIFICATION_ERROR_CODE

\* C20: pacing. The broadcaster sleeps in the loop of broadcast_tx only after a
\* transport error or a code-32 response, holding the package; it sleeps in
\* run only after a package has ended (response sent, or expired), holding
\* none. The sleep that ended last before a second or later attempt of a
\* package is signed lasted retry_delay_duration; the sleep that ended last
\* before a recv(), and so before the first attempt of the package received,
\* lasted delay_duration (none before the first recv() of the run).
C20_Pacing ==
    /\ pc = "retry_sleep" =>
            (Retried /\ cur = pkg.id /\ cur # NoPackage /\ Unsent(cur))
    /\ pc = "delay" =>
            /\ ~Retried
            /\ cur = NoPackage
            /\ Ended(pkg.id)
    /\ (pc \in {"sign", "broadcast"} /\ pkg.broadcasts > (IF pc = "sign" THEN 0 ELSE 1))
            => run.slept = "retry_delay_duration"
    /\ (pc = "recv" \/ (pc = "sign" /\ pkg.broadcasts = 0)) =>
            run.slept = (IF \E p \in Packages : Handled(p)
                         THEN "delay_duration" ELSE "none")

\* C20 witness: the second package, received after the pacing delay, is about
\* to be signed again after a code-32 response and the retry delay.
C20_Witness ==
    /\ pkg.id = 2
    /\ pc = "sign"
    /\ pkg.broadcasts = 1
    /\ att.code = SIGNATURE_VERIFICATION_ERROR_CODE
    /\ run.slept = "retry_delay_duration"

\* ===================================================================
\* State::run: the mutexes of State and the instances run from its clones
\* ===================================================================

\* Variant: the lock is taken without waiting for its holder.
LockAvailable_Always(lock) == TRUE

\* Mutex::lock_owned().await completes only while no guard of the mutex lives.
LockAvailable(lock) == lock = NoInstance

\* What the steps of State::run leave alone: everything of the broadcaster but
\* the signer's sequence number.
beside_signer == <<node, chain_seq, senders_alive, next_id, transaction_rx, feedback,
                   pc, cur, consecutive_errors, response, att, pkg, run,
                   node_codes, deadline_passed,
                   gas, contract_tx, alarms, grpc_var, creation, legacy_vars>>

\* State::run is called on a clone and its future is polled: it awaits the
\* signer's lock.
RunState(i) ==
    /\ inst[i] = "idle"
    /\ inst' = [inst EXCEPT ![i] = "lock_signer"]
    /\ UNCHANGED <<signer_lock, rx_lock, sequence_number, beside_signer>>

\* signer.lock_owned().await returns the guard; the queue's lock is awaited.
LockSigner(i) ==
    /\ inst[i] = "lock_signer"
    /\ LockAvailable(signer_lock)
    /\ signer_lock' = i
    /\ inst' = [inst EXCEPT ![i] = "lock_rx"]
    /\ UNCHANGED <<rx_lock, sequence_number, beside_signer>>

\* transaction_rx.lock_owned().await returns the guard; Broadcast::new(..).run
\* starts.
LockTransactionRx(i) ==
    /\ inst[i] = "lock_rx"
    /\ LockAvailable(rx_lock)
    /\ rx_lock' = i
    /\ inst' = [inst EXCEPT ![i] = "run"]
    /\ UNCHANGED <<signer_lock, sequence_number, beside_signer>>

\* The running broadcaster signs with the signer and increments its sequence
\* number.
UseSigner(i) ==
    /\ inst[i] = "run"
    /\ sequence_number < MaxBroadcasts
    /\ sequence_number' = increment_sequence_number(sequence_number)
    /\ UNCHANGED <<lock_vars, beside_signer>>

\* Variant: the guard of the queue's receiver outlives the Broadcast.
Terminate_KeepsRx(i) ==
    /\ inst[i] = "run"
    /\ inst' = [inst EXCEPT ![i] = "done"]
    /\ signer_lock' = IF signer_lock = i THEN NoInstance ELSE signer_lock
    /\ UNCHANGED <<rx_lock, sequence_number, beside_signer>>

\* Broadcast::run returns (it returns only an error): the Broadcast and with it
\* both guards are dropped.
Terminate(i) ==
    /\ inst[i] = "run"
    /\ inst' = [inst EXCEPT ![i] = "done"]
    /\ signer_lock' = IF signer_lock = i THEN NoInstance ELSE signer_lock
    /\ rx_lock' = IF rx_lock = i THEN NoInstance ELSE rx_lock
    /\ UNCHANGED <<sequence_number, beside_signer>>

\* The future of State::run is dropped while it awaits a lock: a guard it
\* already holds is dropped with it.
Cancel(i) ==
    /\ inst[i] \in {"lock_signer", "lock_rx"}
    /\ inst' = [inst EXCEPT ![i] = "done"]
    /\ signer_lock' = IF signer_lock = i THEN NoInstance ELSE signer_lock
    /\ UNCHANGED <<rx_lock, sequence_number, beside_signer>>

NextLock ==
    \/ \E i \in Instances : RunState(i)
    \/ \E i \in Instances : LockSigner(i)
    \/ \E i \in Instances : LockTransactionRx(i)
    \/ \E i \in Instances : UseSigner(i)
    \/ \E i \in Instances : Terminate(i)
    \/ \E i \in Instances : Cancel(i)

SpecLock == Init /\ [][NextLock]_vars

\* C13: serial use of the signer. An instance holds the signer's guard exactly
\* from the moment lock_owned returned it until the instance ends, and the
\* queue receiver's guard exactly while its Broadcast runs; an instance handles
\* packages (signs, increments, fetches) only while it holds both; so at most
\* one instance holds the signer and at most one runs at any time.
C13_SerialSigner ==
    /\ \A i \in Instances :
        /\ signer_lock = i <=> inst[i] \in {"lock_rx", "run"}
        /\ rx_lock = i <=> inst[i] = "run"
    /\ Cardinality({i \in Instances : inst[i] \in {"lock_rx", "run"}}) <= 1
    /\ signer_lock \in Instances \cup {NoInstance}
    /\ rx_lock \in Instances \cup {NoInstance}

\* C13 witness: one instance runs and has used the signer, a second one waits
\* for the signer's lock, and a third one has run before and ended.
C13_Witness ==
    \E i, j, k \in Instances :
        /\ inst[i] = "run" /\ signer_lock = i /\ rx_lock = i
        /\ inst[j] = "lock_signer"
        /\ inst[k] = "done"
        /\ sequence_number > 2

\* ===================================================================
\* Expiration: packages with deadlines, a node that may never answer
\* ===================================================================

\* The deadline of a package that was enqueued and has not ended passes.
DeadlinePasses(p) ==
    /\ p \in Outstanding
    /\ p \notin deadline_passed
    /\ deadline_passed' = deadline_passed \cup {p}
    /\ UNCHANGED <<broadcast_vars, node_codes, lock_vars,
                   gas, contract_tx, alarms, grpc_var, creation, legacy_vars>>

\* Variant: the broadcast call is awaited without the expiration around it.
CallExpires_Never == FALSE

\* expiration.with_expiration(self.client.sync(raw_tx)): the call is cut off,
\* and answers nothing any more, once the package's deadline has passed.
CallExpires == cur \in deadline_passed

\* The broadcast call returns Ok(response) before the deadline.
TimedResponse == ~CallExpires /\ Response

\* The broadcast call returns Err before the deadline.
TimedTransportError == ~CallExpires /\ TransportError

\* with_expiration returns Err: the deadline has passed.
TimedExpired == CallExpires /\ Expired

\* self.client.simulate(..).await never returns: no expiration is around it.
SimulateHangs ==
    /\ pc = "sign"
    /\ pc' = "hung"
    /\ UNCHANGED <<other_vars, node, chain_seq, senders_alive, next_id, transaction_rx,
                   feedback, cur, sequence_number, consecutive_errors, response,
                   att, pkg, run>>

\* self.signer.fetch_sequence_number().await never returns: no expiration is
\* around it.
FetchHangs ==
    /\ pc = "fetch"
    /\ pc' = "hung"
    /\ UNCHANGED <<other_vars, node, chain_seq, senders_alive, next_id, transaction_rx,
                   feedback, cur, sequence_number, consecutive_errors, response,
                   att, pkg, run>>

\* As BroadcastInit, against a mock node, without the history records.
InitLive ==
    /\ node = "mock"
    /\ chain_seq = 0
    /\ senders_alive = TRUE
    /\ next_id = 1
    /\ transaction_rx = <<>>
    /\ feedback = [p \in Packages |-> FbInit]
    /\ pc = "recv"
    /\ cur = NoPackage
    /\ sequence_number \in InitSequences
    /\ consecutive_errors = 0
    /\ response = NoCode
    /\ att = AttInit
    /\ pkg = PkgInit
    /\ run = [RunInit EXCEPT !.kept = FALSE]
    /\ node_codes = {11}
    /\ deadline_passed = {}
    /\ LockInit
    /\ RestInit

\* A task enqueues one of the run's packages.
EnqueueLive == next_id <= LivePackages /\ Enqueue

NextLive ==
    \/ EnqueueLive
    \/ \E p \in Packages : DeadlinePasses(p)
    \/ Recv
    \/ Delay
    \/ SimulateAndSign
    \/ SignFail
    \/ SimulateHangs
    \/ TimedExpired
    \/ TimedTransportError
    \/ TimedResponse
    \/ FetchOk
    \/ FetchFail
    \/ FetchHangs
    \/ RetrySleep

\* The broadcaster's own steps are taken when they can be: recv() of a queued
\* package returns and the two sleeps end; every deadline passes, and the
\* expiration fires once its deadline has passed. Of the node nothing is
\* assumed: the broadcast call, the simulation and the fetch may each return
\* or never return (a call that does not return hangs for good).
FairnessLive ==
    /\ WF_vars(Recv)
    /\ WF_vars(Delay)
    /\ WF_vars(RetrySleep)
    /\ WF_vars(SimulateAndSign \/ SignFail \/ SimulateHangs)
    /\ WF_vars(FetchOk \/ FetchFail \/ FetchHangs)
    /\ WF_vars(TimedExpired)
    /\ \A p \in Packages : WF_vars(DeadlinePasses(p))

SpecLive == InitLive /\ [][NextLive]_vars /\ FairnessLive

\* A broadcast call in flight after the package's deadline is cut off: the
\* package is abandoned, its sender dropped, and the broadcaster gets to the
\* next recv().
C16_StuckBroadcastAbandoned(p) ==
    (pc = "broadcast" /\ cur = p /\ p \in deadline_passed)
        ~> (pc = "recv" /\ feedback[p].st \in {"closed", "dead"})

\* C16 as stated: a stuck broadcast call is abandoned at the deadline, and a
\* package with a finite deadline never blocks the broadcaster for ever: every
\* package served stops being served.
C16_NeverBlocks ==
    \A p \in 1..LivePackages :
        /\ C16_StuckBroadcastAbandoned(p)
        /\ (cur = p) ~> (cur # p)

\* C16 amended: a stuck broadcast call is abandoned at the deadline, and a
\* package with a finite deadline stops being served, also when every attempt
\* ends in code 32 or a transport error, unless the simulation call or the
\* forced fetch of one of its attempts never returns: those two are awaited
\* outside the expiration, and then the package is served for ever.
C16_DeadlineBoundsBroadcastCall ==
    \A p \in 1..LivePackages :
        /\ C16_StuckBroadcastAbandoned(p)
        /\ (cur = p) ~> (cur # p \/ pc = "hung")

\* C16 witness: the first package was answered with code 32 twice and then
\* abandoned at its deadline; the broadcaster is in the pacing delay.
C16_Witness ==
    /\ next_id = 2
    /\ 1 \in deadline_passed
    /\ feedback[1].st = "closed"
    /\ consecutive_errors = 2
    /\ pc = "delay"

\* ===================================================================
\* Gas estimation: Broadcast::simulate_and_sign_tx (broadcaster),
\* commit_tx_with_gas_estimation (chain-comms) and commit_tx (alarms
\* dispatcher)
\* ===================================================================

\* The broadcaster at rest, for the runs of the other parts.
BroadcastRest ==
    /\ node = "mock"
    /\ chain_seq = 0
    /\ senders_alive = TRUE
    /\ next_id = 1
    /\ transaction_rx = <<>>
    /\ feedback = [p \in Packages |-> FbInit]
    /\ pc = "recv"
    /\ cur = NoPackage
    /\ sequence_number = 0
    /\ consecutive_errors = 0
    /\ response = NoCode
    /\ att = AttInit
    /\ pkg = PkgInit
    /\ run = RunInit
    /\ node_codes = {11}
    /\ deadline_passed = {}
    /\ LockInit

\* u64::MAX and u128::MAX, at the width of the model.
GasMax == 2^GasBits - 1
WideMax == 2^(2 * GasBits) - 1

\* The gas values a simulation reports.
GasValues == 0..GasMax

\* Numerators and denominators of the configuration (NonZeroU32).
RatioParts == 1..3
PriceParts == {1, 2}

\* Inputs of the callers.
HardLimits == {10, 100}
FallbackLimits == {20, 120}
PerAlarmLimits == {30, 100}
MaxCounts == {1, 2}

GasConfs ==
    [adj_num : RatioParts, adj_den : RatioParts,
     price_num : PriceParts, price_den : PriceParts]

Min(a, b) == IF a <= b THEN a ELSE b

\* u128::checked_mul and u128::saturating_mul: NoGas stands for None.
CheckedMulWide(a, b) == IF a * b > WideMax THEN NoGas ELSE a * b
SaturatingMulWide(a, b) == Min(a * b, WideMax)

\* u64::checked_mul and u64::saturating_mul.
CheckedMul(a, b) == IF a * b > GasMax THEN NoGas ELSE a * b
SaturatingMul(a, b) == Min(a * b, GasMax)

\* checked_div of either width: None only for a zero divisor.
CheckedDiv(a, b) == IF b = 0 THEN NoGas ELSE a \div b

\* Variant: the ratio is applied upside down.
AdjustedGasLimit_Inverted(tx_gas_limit, conf) ==
    Min((tx_gas_limit * conf.adj_den) \div conf.adj_num, GasMax)

\* commit_tx_with_gas_estimation: adjusted_gas_limit. The product is taken in
\* u128; a quotient that does not fit u64 becomes u64::MAX; only a None of
\* checked_mul or checked_div gives the unadjusted value.
AdjustedGasLimit(tx_gas_limit, conf) ==
    LET product == CheckedMulWide(tx_gas_limit, conf.adj_num)
        quotient == IF product = NoGas THEN NoGas
                    ELSE CheckedDiv(product, conf.adj_den)
    IN  IF quotient = NoGas THEN tx_gas_limit
        ELSE IF quotient > GasMax THEN GasMax ELSE quotient

\* calculate_fee: the amount of the fee for a gas limit, saturating_mul then
\* saturating_div by the non-zero denominator, both in u128.
calculate_fee(gas_limit, conf) ==
    SaturatingMulWide(gas_limit, conf.price_num) \div conf.price_den

\* Variant: a simulation is accepted whatever gas it used.
SimulationAccepted_Always(gas_limit, gas_used) == TRUE

\* simulate_tx: a simulation that used more than the gas limit is an error.
SimulationAccepted(gas_limit, gas_used) == ~(gas_limit < gas_used)

\* Variant: the product wraps around.
DispatcherGasLimit_Wrapping(gas_used) == ((gas_used * 11) % (GasMax + 1)) \div 10

\* commit_tx of the alarms dispatcher: the gas of the fee, gas_used * 11 / 10
\* in u64, or gas_used when a step gives None.
DispatcherGasLimit(gas_used) ==
    LET product == CheckedMul(gas_used, 11)
        quotient == IF product = NoGas THEN NoGas ELSE CheckedDiv(product, 10)
    IN  IF quotient = NoGas THEN gas_used ELSE quotient

\* Signer::tx_with_gas_adjustment: min(hard_limit, simulated_gas * num / den);
\* a product that overflows leaves the gas unmultiplied.
tx_with_gas_adjustment(gas_used, hard_gas_limit, conf) ==
    LET product == CheckedMul(gas_used, conf.adj_num)
        adjusted == IF product = NoGas THEN gas_used ELSE product \div conf.adj_den
    IN  Min(hard_gas_limit, adjusted)

\* Variant: the fallback gas goes through the adjustment as well.
FallbackGasLimit_Adjusted(fallback_gas, conf) ==
    Min((fallback_gas * conf.adj_num) \div conf.adj_den, GasMax)

\* simulate_and_sign_tx, Err(error): self.signer.tx(tx, fallback_gas).
FallbackGasLimit(fallback_gas, conf) == fallback_gas

\* What the steps of a gas estimation leave alone.
beside_gas == <<broadcast_vars, node_codes, deadline_passed, lock_vars,
                contract_tx, alarms, grpc_var, creation, legacy_vars>>

\* simulate_and_sign_tx up to its await: the simulation transaction is signed
\* with the hard gas limit and sent to the node.
SimulateAndSignTx(h, f) ==
    /\ gas.pc = "idle"
    /\ gas' = [gas EXCEPT !.site = "broadcaster", !.pc = "simulate",
                          !.hard = h, !.fallback = f, !.sim_limit = h]
    /\ UNCHANGED beside_gas

\* client.simulate(..).await returned Ok(gas) or Err: the transaction to
\* broadcast is signed with the adjusted or with the fallback gas.
SimulateReturns(answer) ==
    /\ gas.site = "broadcaster"
    /\ gas.pc = "simulate"
    /\ gas' = [gas EXCEPT
                 !.pc = "signed",
                 !.sim = IF answer = NoGas THEN "err" ELSE "ok",
                 !.simulated = answer,
                 !.limit = IF answer = NoGas
                           THEN FallbackGasLimit(gas.fallback, gas.conf)
                           ELSE tx_with_gas_adjustment(answer, gas.hard, gas.conf)]
    /\ UNCHANGED beside_gas

\* commit_tx_with_gas_estimation up to the await of simulate_tx: the
\* simulation transaction carries the fee of the gas limit.
CommitTxWithGasEstimation(h, f) ==
    /\ gas.pc = "idle"
    /\ gas' = [gas EXCEPT !.site = "chain_comms", !.pc = "simulate",
                          !.hard = h, !.fallback = f, !.sim_limit = h]
    /\ UNCHANGED beside_gas

\* simulate_tx returned: Ok(gas_info) when the node answered within the gas
\* limit, Err otherwise; the estimate is adjusted and commit_tx signs with its
\* fee.
SimulateTxReturns(answer) ==
    /\ gas.site = "chain_comms"
    /\ gas.pc = "simulate"
    /\ LET ok == answer # NoGas /\ SimulationAccepted(gas.hard, answer)
           tx_gas_limit == IF ok THEN answer ELSE gas.fallback
           adjusted_gas_limit == AdjustedGasLimit(tx_gas_limit, gas.conf)
       IN  gas' = [gas EXCEPT
                     !.pc = "signed",
                     !.sim = IF ok THEN "ok" ELSE "err",
                     !.simulated = answer,
                     !.limit = adjusted_gas_limit,
                     !.fee = calculate_fee(adjusted_gas_limit, gas.conf)]
    /\ UNCHANGED beside_gas

\* commit_tx of the dispatcher up to the await in simulation_gas_info: the
\* simulation transaction carries gas_limit_per_alarm * max_count, saturated.
DispatcherCommitTx(per_alarm, max_count) ==
    /\ gas.pc = "idle"
    /\ gas' = [gas EXCEPT !.site = "dispatcher", !.pc = "simulate",
                          !.sim_limit = SaturatingMul(per_alarm, max_count)]
    /\ UNCHANGED beside_gas

\* simulation_gas_info returned: an error ends commit_tx, a gas_info is
\* adjusted by 11 / 10 and signed.
SimulationGasInfoReturns(answer) ==
    /\ gas.site = "dispatcher"
    /\ gas.pc = "simulate"
    /\ gas' = IF answer = NoGas
              THEN [gas EXCEPT !.pc = "failed", !.sim = "err"]
              ELSE [gas EXCEPT !.pc = "signed", !.sim = "ok",
                               !.simulated = answer,
                               !.limit = DispatcherGasLimit(answer)]
    /\ UNCHANGED beside_gas

\* Signing the transaction to broadcast failed: no transaction is produced.
GasSignFails ==
    /\ gas.pc = "simulate"
    /\ gas' = [gas EXCEPT !.pc = "failed"]
    /\ UNCHANGED beside_gas

\* The call returned; the next one starts from scratch.
GasReturn ==
    /\ gas.pc \in {"signed", "failed"}
    /\ gas' = GasRest(gas.conf)
    /\ UNCHANGED beside_gas

InitGas ==
    /\ BroadcastRest
    /\ gas \in {GasRest(conf) : conf \in GasConfs}
    /\ ContractTxInit
    /\ AlarmsInit
    /\ GrpcVarInit
    /\ CreationInit
    /\ LegacyInit

GasAnswers == GasValues \cup {NoGas}

NextGas ==
    \/ \E h \in HardLimits, f \in FallbackLimits : SimulateAndSignTx(h, f)
    \/ \E answer \in GasAnswers : SimulateReturns(answer)
    \/ \E h \in HardLimits, f \in FallbackLimits : CommitTxWithGasEstimation(h, f)
    \/ \E answer \in GasAnswers : SimulateTxReturns(answer)
    \/ \E a \in PerAlarmLimits, m \in MaxCounts : DispatcherCommitTx(a, m)
    \/ \E answer \in GasAnswers : SimulationGasInfoReturns(answer)
    \/ GasSignFails
    \/ GasReturn

SpecGas == InitGas /\ [][NextGas]_vars

\* ------------------------------------------------- gas: the properties

\* A transaction has been signed for broadcasting at the given place.
GasSigned(site) == gas.pc = "signed" /\ gas.site = site

\* The adjustment ratio does not shrink the gas.
RatioAtLeastOne == gas.conf.adj_num >= gas.conf.adj_den

\* g * num / den, without any width.
Scaled(g) == (g * gas.conf.adj_num) \div gas.conf.adj_den

\* The gas the adjustment of chain-comms starts from.
Estimate == IF gas.sim = "ok" THEN gas.simulated ELSE gas.fallback

\* C21 as stated: every transaction signed for broadcasting has a gas limit of
\* at most the hard gas limit, and of at least the simulated gas when the
\* simulation succeeded.
C21_GasWithinBounds ==
    (GasSigned("broadcaster") \/ GasSigned("chain_comms")) =>
        /\ gas.limit <= gas.hard
        /\ gas.sim = "ok" => gas.limit >= gas.simulated

\* C21 as the code has it: in the broadcaster a transaction signed after a
\* successful simulation has a gas limit of at most the hard gas limit, and of
\* at least the simulated gas when the ratio is at least one and the simulated
\* gas is within the hard limit; after a failed simulation the gas limit is
\* within the hard limit exactly when the fallback gas is. In
\* commit_tx_with_gas_estimation the adjusted gas is not capped: it is within
\* the hard limit when estimate * num / den is, and at least the simulated gas
\* when the ratio is at least one.
C21_GasBoundsByPath ==
    /\ (GasSigned("broadcaster") /\ gas.sim = "ok") =>
          /\ gas.limit <= gas.hard
          /\ (RatioAtLeastOne /\ gas.simulated <= gas.hard) =>
                gas.limit >= gas.simulated
    /\ (GasSigned("broadcaster") /\ gas.sim = "err") =>
          (gas.limit <= gas.hard <=> gas.fallback <= gas.hard)
    /\ GasSigned("chain_comms") =>
          /\ gas.limit <= gas.hard <=> Scaled(Estimate) <= gas.hard
          /\ (gas.sim = "ok" /\ RatioAtLeastOne) => gas.limit >= gas.simulated

\* C21 witness: the broadcaster signed above the simulated gas and below the
\* hard limit, and commit_tx_with_gas_estimation would sign above its limit.
C21_Witness ==
    /\ GasSigned("broadcaster")
    /\ gas.sim = "ok"
    /\ gas.simulated < gas.limit
    /\ gas.limit < gas.hard
    /\ Scaled(gas.hard) > gas.hard

\* C22 as stated: a simulated gas above the hard gas limit gives a transaction
\* signed with exactly the hard gas limit.
C22_SignedAtHardLimit ==
    ((GasSigned("broadcaster") \/ GasSigned("chain_comms"))
        /\ gas.simulated # NoGas /\ gas.simulated > gas.hard) =>
        gas.limit = gas.hard

\* C22 as the code has it: in the broadcaster a simulated gas above the hard
\* limit gives a gas limit of the hard limit whenever the adjusted gas reaches
\* it (always so for a ratio of at least one), and of the adjusted gas
\* otherwise; in commit_tx_with_gas_estimation such a simulation counts as
\* failed and the gas limit is the adjusted fallback gas.
C22_AboveHardLimit ==
    /\ (GasSigned("broadcaster") /\ gas.simulated # NoGas
          /\ gas.simulated > gas.hard) =>
          /\ gas.limit <= gas.hard
          /\ RatioAtLeastOne => gas.limit = gas.hard
          /\ gas.limit < gas.hard => gas.limit = Scaled(gas.simulated)
    /\ (GasSigned("chain_comms") /\ gas.simulated # NoGas
          /\ gas.simulated > gas.hard) =>
          /\ gas.sim = "err"
          /\ gas.limit = Min(Scaled(gas.fallback), GasMax)

\* C22 witness: the broadcaster signed at the hard limit after a simulation
\* above it, under a ratio above one.
C22_Witness ==
    /\ GasSigned("broadcaster")
    /\ gas.sim = "ok"
    /\ gas.simulated > gas.hard
    /\ gas.limit = gas.hard
    /\ gas.conf.adj_num > gas.conf.adj_den

\* C23 as stated: after a failed simulation the transaction is signed with
\* exactly the fallback gas, the ratio not applied, and goes on to the
\* broadcast.
C23_ExactFallback ==
    ((gas.site = "broadcaster" \/ gas.site = "chain_comms") /\ gas.sim = "err") =>
        /\ gas.pc = "signed"
        /\ gas.limit = gas.fallback

\* C23 as the code has it: after a failed simulation the broadcaster signs
\* with exactly the fallback gas, and commit_tx_with_gas_estimation with the
\* fallback gas times the adjustment ratio; both go on to the broadcast.
C23_FallbackByPath ==
    /\ (gas.site = "broadcaster" /\ gas.sim = "err") =>
          /\ gas.pc = "signed"
          /\ gas.limit = gas.fallback
    /\ (gas.site = "chain_comms" /\ gas.sim = "err") =>
          /\ gas.pc = "signed"
          /\ gas.limit = Min(Scaled(gas.fallback), GasMax)

\* C23 witness: the broadcaster signed with the fallback gas, above the hard
\* limit, under a ratio other than one.
C23_Witness ==
    /\ GasSigned("broadcaster")
    /\ gas.sim = "err"
    /\ gas.limit = gas.fallback
    /\ gas.fallback > gas.hard
    /\ gas.conf.adj_num > gas.conf.adj_den

\* The product or the quotient of the adjustment does not fit the gas type.
GasOverflows ==
    \/ GasSigned("dispatcher") /\ gas.simulated * 11 > GasMax
    \/ GasSigned("chain_comms") /\ Scaled(Estimate) > GasMax

\* The gas before the adjustment.
Unmultiplied == IF gas.site = "dispatcher" THEN gas.simulated ELSE Estimate

\* C24 as stated: whenever the multiplication or the conversion back to the
\* gas type overflows, the resulting gas is exactly the unmultiplied gas.
C24_OverflowKeepsGas == GasOverflows => gas.limit = Unmultiplied

\* C24 as the code has it: in the dispatcher a product gas_used * 11 that
\* overflows the gas type leaves the gas unmultiplied, and otherwise the gas is
\* gas_used * 11 / 10; in commit_tx_with_gas_estimation the product is taken
\* in the wider type and never overflows, and a quotient that does not fit the
\* gas type gives the largest gas value; the fee amount never saturates.
C24_OverflowByPath ==
    /\ GasSigned("dispatcher") =>
          gas.limit = IF gas.simulated * 11 > GasMax THEN gas.simulated
                      ELSE (gas.simulated * 11) \div 10
    /\ GasSigned("chain_comms") =>
          /\ Estimate * gas.conf.adj_num <= WideMax
          /\ gas.limit = IF Scaled(Estimate) > GasMax THEN GasMax
                         ELSE Scaled(Estimate)
          /\ gas.fee = (gas.limit * gas.conf.price_num) \div gas.conf.price_den

\* C24 witness: the dispatcher signed with the unmultiplied gas after an
\* overflow of the product.
C24_Witness ==
    /\ GasSigned("dispatcher")
    /\ gas.simulated * 11 > GasMax
    /\ gas.simulated < GasMax
    /\ gas.limit = gas.simulated

\* ===================================================================
\* ContractTx (chain-comms, build_tx)
\* ===================================================================

\* Contract addresses, message payloads, and the memo and timeout of commit.
Contracts == {"oracle", "time_alarms"}
Payloads == {"feed", "dispatch"}
Memos == {"", "memo"}
Timeouts == {0, 9}

\* ContractTx::is_empty.
is_empty(tx) == tx.messages = <<>>

\* ContractTx::serialize: one MsgExecuteContract per message, in order.
serialize(tx) ==
    [i \in 1..Len(tx.messages) |->
        [sender |-> "signer", contract |-> tx.contract, msg |-> tx.messages[i]]]

\* What the steps of a ContractTx leave alone.
beside_contract_tx == <<broadcast_vars, node_codes, deadline_passed, lock_vars,
                        gas, alarms, grpc_var, creation, legacy_vars>>

\* ContractTx::new.
ContractTxNew(c) ==
    /\ contract_tx.st = "none"
    /\ contract_tx' = [ContractTxRest EXCEPT !.st = "built", !.contract = c]
    /\ UNCHANGED beside_contract_tx

\* Variant: the message is not kept.
AddMessage_Discards(m) ==
    /\ contract_tx.st = "built"
    /\ contract_tx.added < MaxMessages
    /\ contract_tx' = [contract_tx EXCEPT !.added = @ + 1]
    /\ UNCHANGED beside_contract_tx

\* ContractTx::add_message.
AddMessage(m) ==
    /\ contract_tx.st = "built"
    /\ contract_tx.added < MaxMessages
    /\ contract_tx' = [contract_tx EXCEPT !.messages = Append(@, m),
                                          !.added = @ + 1]
    /\ UNCHANGED beside_contract_tx

\* ContractTx::commit: serialize succeeded and signer.sign returned the signed
\* transaction over Body::new(messages, memo or "", timeout or 0).
CommitSigned(memo, timeout) ==
    /\ contract_tx.st = "built"
    /\ contract_tx' = [contract_tx EXCEPT !.st = "committed",
                                          !.body = serialize(contract_tx),
                                          !.memo = memo, !.timeout = timeout]
    /\ UNCHANGED beside_contract_tx

\* ContractTx::commit: ProtobufAny::from_msg failed on one of the messages.
CommitSerializeFails ==
    /\ contract_tx.st = "built"
    /\ contract_tx.messages # <<>>
    /\ contract_tx' = [contract_tx EXCEPT !.st = "rejected"]
    /\ UNCHANGED beside_contract_tx

\* ContractTx::commit: signer.sign returned an error.
CommitSignFails ==
    /\ contract_tx.st = "built"
    /\ contract_tx' = [contract_tx EXCEPT !.st = "rejected"]
    /\ UNCHANGED beside_contract_tx

\* The result of commit is dropped.
ContractTxDrop ==
    /\ contract_tx.st \in {"committed", "rejected"}
    /\ contract_tx' = ContractTxRest
    /\ UNCHANGED beside_contract_tx

InitContractTx ==
    /\ BroadcastRest
    /\ GasInit
    /\ ContractTxInit
    /\ AlarmsInit
    /\ GrpcVarInit
    /\ CreationInit
    /\ LegacyInit

NextContractTx ==
    \/ \E c \in Contracts : ContractTxNew(c)
    \/ \E m \in Payloads : AddMessage(m)
    \/ \E memo \in Memos, timeout \in Timeouts : CommitSigned(memo, timeout)
    \/ CommitSerializeFails
    \/ CommitSignFails
    \/ ContractTxDrop

SpecContractTx == InitContractTx /\ [][NextContractTx]_vars

\* C25 as stated: a ContractTx without messages is empty and its commit is
\* rejected, so no signed transaction comes from it; after any add_message it
\* is not empty.
C25_EmptyCommitRejected ==
    /\ (contract_tx.st = "built" /\ contract_tx.added = 0) => is_empty(contract_tx)
    /\ (contract_tx.st = "built" /\ contract_tx.added > 0) => ~is_empty(contract_tx)
    /\ contract_tx.st = "committed" => contract_tx.added > 0

\* C25 as the code has it: a ContractTx is empty exactly while no message has
\* been added to it; commit does not look at emptiness: it signs a body of as
\* many messages as were added, in their order, none for an empty ContractTx,
\* and only a failed serialization or signature rejects it.
C25_EmptyUntilAdded ==
    /\ contract_tx.st = "built" =>
          (is_empty(contract_tx) <=> contract_tx.added = 0)
    /\ contract_tx.st # "none" => Len(contract_tx.messages) = contract_tx.added
    /\ contract_tx.st = "committed" =>
          /\ Len(contract_tx.body) = contract_tx.added
          /\ \A i \in 1..Len(contract_tx.body) :
                /\ contract_tx.body[i].msg = contract_tx.messages[i]
                /\ contract_tx.body[i].contract = contract_tx.contract
    /\ (contract_tx.st = "built" /\ is_empty(contract_tx)) =>
          /\ ENABLED CommitSigned("", 0)
          /\ ~ENABLED CommitSerializeFails

\* C25 witness: the commit of a ContractTx to which no message had been added
\* returned a signed transaction, over a body without messages.
C25_Witness ==
    /\ contract_tx.st = "committed"
    /\ contract_tx.added = 0
    /\ contract_tx.body = <<>>

\* ===================================================================
\* The alarms dispatcher (alarms-dispatcher, main.rs)
\* ===================================================================

\* The contracts of one pass of dispatch_alarms, in its order: the market
\* price oracle, then the time alarms.
AlarmContracts == {1, 2}
LastContract == 1 + 1

\* contract.max_alarms_group() of the two contracts.
MaxAlarmsGroup == <<2, 3>>

\* The contract's answer to AlarmsStatus: alarms remain while some are due.
remaining_for_dispatch(due) == due > 0

\* The contract's answer to DispatchAlarms{max_count}: it dispatches the due
\* alarms, at most max_count of them.
dispatched_alarms(due, max_count) == Min(due, max_count)

\* Variant: the dispatch is sent whatever the status says.
Dispatches_Always(remaining) == TRUE

\* dispatch_alarm: if response.remaining_for_dispatch().
Dispatches(remaining) == remaining

\* Variant: the drain goes on after any dispatch that dispatched something.
DrainContinues_WhileAny(dispatched, max_alarms) == dispatched > 0

\* dispatch_alarm: if result.dispatched_alarms() == max_alarms { continue; }.
DrainContinues(dispatched, max_alarms) == dispatched = max_alarms

\* What the steps of the dispatcher leave alone.
beside_alarms == <<broadcast_vars, node_codes, deadline_passed, lock_vars,
                   gas, contract_tx, grpc_var, creation, legacy_vars>>

\* The drain of the current contract, as the next query finds it: the one
\* under way, or a new one after the last has ended.
CurrentDrain ==
    IF alarms.drain.end = "running" THEN alarms.drain
    ELSE [DrainNone EXCEPT
            !.contract = alarms.contract, !.end = "running",
            !.second = alarms.prev_end[alarms.contract] = "short"]

\* dispatch_alarm returned Ok(()) with the drain as given: dispatch_alarms
\* goes on to the next contract and after the last one to sleep(poll_period).
AfterDrain(drain, due) ==
    [alarms EXCEPT
       !.due = due,
       !.drain = drain,
       !.prev_end = [@ EXCEPT ![alarms.contract] = drain.end],
       !.contract = IF alarms.contract = LastContract THEN @ ELSE @ + 1,
       !.pc = IF alarms.contract = LastContract THEN "sleep" ELSE "query"]

\* query_status(..).await returned the contract's status.
QueryStatus ==
    /\ alarms.pc = "query"
    /\ LET remaining == remaining_for_dispatch(alarms.due[alarms.contract])
           drain == [CurrentDrain EXCEPT !.remaining = remaining]
       IN  alarms' =
             IF Dispatches(remaining)
             THEN [alarms EXCEPT !.drain = drain, !.pc = "commit"]
             ELSE AfterDrain(
                    [drain EXCEPT !.end = IF drain.n = 0 THEN "no_remaining"
                                          ELSE "drained"],
                    alarms.due)
    /\ UNCHANGED beside_alarms

\* query_status(..).await? returned an error (the call failed or timed out,
\* or the data is not a StatusResponse): dispatch_alarm, dispatch_alarms and
\* main return it.
QueryStatusFails ==
    /\ alarms.pc = "query"
    /\ alarms' = [alarms EXCEPT !.drain = [CurrentDrain EXCEPT !.end = "error"],
                                !.pc = "terminated"]
    /\ UNCHANGED beside_alarms

\* commit_tx(..).await returned the contract's DispatchResponse.
CommitTx ==
    /\ alarms.pc = "commit"
    /\ LET c == alarms.contract
           k == dispatched_alarms(alarms.due[c], MaxAlarmsGroup[c])
           due == [alarms.due EXCEPT ![c] = @ - k]
           drain == [alarms.drain EXCEPT !.n = @ + 1, !.alarms = @ + k,
                                         !.last = k]
       IN  alarms' =
             IF DrainContinues(k, MaxAlarmsGroup[c])
             THEN [alarms EXCEPT !.due = due, !.drain = drain, !.pc = "query"]
             ELSE AfterDrain([drain EXCEPT !.end = "short"], due)
    /\ UNCHANGED beside_alarms

\* commit_tx(..).await? returned an error, before the broadcast (simulation,
\* signature, transport) or after it (the response data is not a
\* DispatchResponse): dispatch_alarm, dispatch_alarms and main return it.
CommitTxFails ==
    /\ alarms.pc = "commit"
    /\ \E k \in {0, dispatched_alarms(alarms.due[alarms.contract],
                                      MaxAlarmsGroup[alarms.contract])} :
          alarms' = [alarms EXCEPT
                       !.due[alarms.contract] = @ - k,
                       !.drain.end = "error",
                       !.pc = "terminated"]
    /\ UNCHANGED beside_alarms

\* sleep(poll_period).await returned: the next pass starts at the first
\* contract.
PollSleep ==
    /\ alarms.pc = "sleep"
    /\ alarms' = [alarms EXCEPT !.pc = "query", !.contract = 1,
                                !.drain = DrainNone]
    /\ UNCHANGED beside_alarms

\* An alarm of a contract becomes due on the chain.
AlarmDue(c) ==
    /\ alarms.pc # "off"
    /\ alarms.arrived < MaxDue
    /\ alarms' = [alarms EXCEPT
                    !.due[c] = @ + 1,
                    !.arrived = @ + 1,
                    !.prev_end[c] = "none",
                    !.drain.second = @ /\ ~(alarms.drain.contract = c)]
    /\ UNCHANGED beside_alarms

\* dispatch_alarms starts its loop.
InitAlarms ==
    /\ BroadcastRest
    /\ GasInit
    /\ ContractTxInit
    /\ alarms = [AlarmsRest EXCEPT !.pc = "query", !.contract = 1]
    /\ GrpcVarInit
    /\ CreationInit
    /\ LegacyInit

NextAlarms ==
    \/ QueryStatus
    \/ QueryStatusFails
    \/ CommitTx
    \/ CommitTxFails
    \/ PollSleep
    \/ \E c \in AlarmContracts : AlarmDue(c)

SpecAlarms == InitAlarms /\ [][NextAlarms]_vars

\* ---------------------------------------------- alarms: the properties

\* The batch cap of the contract of the drain last recorded.
DrainCap == MaxAlarmsGroup[alarms.drain.contract]

\* dispatch_alarm has returned Ok(()) from the drain last recorded.
DrainEnded == alarms.drain.end \in {"short", "drained", "no_remaining"}

\* A dispatch is sent only after a status query that reported remaining
\* alarms; the drain goes on while every dispatch reports the cap and ends at
\* the first that reports fewer; dispatches at the cap followed by one short
\* of it by one are that many dispatches plus one (three and a fourth: four).
DrainLoop ==
    /\ alarms.pc = "commit" => alarms.drain.remaining
    /\ (alarms.drain.end = "running" /\ alarms.drain.n > 0) =>
          alarms.drain.last = DrainCap
    /\ alarms.drain.end = "short" =>
          /\ alarms.drain.last < DrainCap
          /\ alarms.drain.n = (alarms.drain.alarms \div DrainCap) + 1
          /\ alarms.drain.alarms = 4 * DrainCap - 1 => alarms.drain.n = 4

\* C26 as stated: the drain loop of one tick, after whose last dispatch (the
\* first to report fewer than max_count) the task sleeps the idle period.
C26_DrainThenSleep ==
    /\ DrainLoop
    /\ alarms.drain.end = "short" => alarms.pc = "sleep"

\* C26 as the code has it: the drain loop is run per contract, and one pass
\* of dispatch_alarms drains the market price oracle and then the time
\* alarms; after the drain of the first the task queries the second, and only
\* after the drain of the second it sleeps the poll period.
C26_DrainPerContract ==
    /\ DrainLoop
    /\ DrainEnded =>
          IF alarms.drain.contract = LastContract
          THEN alarms.pc = "sleep"
          ELSE alarms.pc = "query" /\ alarms.contract = alarms.drain.contract + 1

\* C26 witness: the drain of the first contract ended with its fourth
\* dispatch, three at the cap and one short of it by one.
C26_Witness ==
    /\ alarms.drain.contract = 1
    /\ alarms.drain.end = "short"
    /\ alarms.drain.n = 4
    /\ alarms.drain.last = MaxAlarmsGroup[1] - 1
    /\ alarms.drain.alarms = 4 * MaxAlarmsGroup[1] - 1

\* C27: a drain of a contract that starts after a drain of the same contract
\* ended with a dispatch of fewer than max_count alarms, no alarm of that
\* contract having become due since, dispatches nothing: its status query
\* reports no remaining alarms and it sends no dispatch at all.
C27_DrainIdempotent ==
    alarms.drain.second =>
        /\ alarms.drain.n = 0
        /\ alarms.drain.alarms = 0
        /\ alarms.pc # "commit"
        /\ DrainEnded => alarms.drain.end = "no_remaining"

\* C27 witness: such a second drain has run and ended without a dispatch.
C27_Witness ==
    /\ alarms.drain.second
    /\ alarms.drain.end = "no_remaining"
    /\ alarms.drain.n = 0

\* C28 as stated: after a query of a tick has failed the task keeps running:
\* the tick is skipped and the task polls again.
C28_FailureSkipsTick ==
    alarms.drain.end = "error" => alarms.pc \in {"sleep", "query"}

\* ===================================================================
\* Id::dex_node_grpc_var (market-data-feeder, task/id.rs)
\* ===================================================================

\* A String is its UTF-8 bytes. The bytes used: ASCII lower-case and
\* upper-case letters, '-' and '_', and the two bytes C3 A9 of the character
\* U+00E9.
UpperOf ==
    [c \in {"o", "s", "m", "e", "t", "n"} |->
        CASE c = "o" -> "O" [] c = "s" -> "S" [] c = "m" -> "M"
          [] c = "e" -> "E" [] c = "t" -> "T" [] c = "n" -> "N"]
AsciiLower == DOMAIN UpperOf
AsciiUpper == {UpperOf[c] : c \in AsciiLower}
Continuation == {"A9"}

\* The bytes of the identifiers tried exhaustively, and one longer identifier.
ShortBytes == {"o", "T", "N", "-", "C3", "A9"}
OsmoTestnet == <<"o", "s", "m", "o", "T", "e", "s", "t", "n", "e", "t">>

\* The byte sequences that are strings: every C3 is followed by A9 and every
\* A9 follows a C3.
ValidUtf8(b) ==
    \A i \in 1..Len(b) :
        /\ b[i] = "C3" => (i < Len(b) /\ b[i + 1] = "A9")
        /\ b[i] = "A9" => (i > 1 /\ b[i - 1] = "C3")

NetworkIds ==
    {b \in UNION {[1..n -> ShortBytes] : n \in 0..MaxNetworkLen} : ValidUtf8(b)}
        \cup {OsmoTestnet}

\* Placeholder: find returned None.
NoIndex == 0 - 1

\* str::is_char_boundary, for a byte offset counted from 0.
is_char_boundary(b, index) ==
    \/ index = 0
    \/ index = Len(b)
    \/ index < Len(b) /\ b[index + 1] \notin Continuation

\* network[search_index..].find(|ch| ch.is_ascii_uppercase())
\*     .map(|index| search_index + index): the byte offset of the first
\* ASCII upper-case letter at or after search_index.
find_uppercase(b, search_index) ==
    LET found == {i \in search_index..(Len(b) - 1) : b[i + 1] \in AsciiUpper}
    IN  IF found = {} THEN NoIndex
        ELSE CHOOSE i \in found : \A j \in found : i <= j

\* String::insert(index, '_').
insert(b, index) == SubSeq(b, 1, index) \o <<"_">> \o SubSeq(b, index + 1, Len(b))

\* str::to_ascii_uppercase, then replace('-', "_").
to_ascii_uppercase(b) ==
    [i \in 1..Len(b) |-> IF b[i] \in AsciiLower THEN UpperOf[b[i]] ELSE b[i]]
replace_hyphen(b) == [i \in 1..Len(b) |-> IF b[i] = "-" THEN "_" ELSE b[i]]

VAR_SUFFIX == <<"_", "_", "N", "O", "D", "E", "_", "G", "R", "P", "C">>

\* What the steps of dex_node_grpc_var leave alone.
beside_grpc_var == <<broadcast_vars, node_codes, deadline_passed, lock_vars,
                     gas, contract_tx, alarms, creation, legacy_vars>>

\* if network.is_empty() { bail!(..) }; let mut search_index = 1.
CheckEmpty ==
    /\ grpc_var.pc = "called"
    /\ grpc_var' = IF grpc_var.network = <<>>
                   THEN [grpc_var EXCEPT !.pc = "err"]
                   ELSE [grpc_var EXCEPT !.pc = "search", !.search_index = 1]
    /\ UNCHANGED beside_grpc_var

\* network[search_index..] with search_index inside a character: the slice
\* panics.
SlicePanics ==
    /\ grpc_var.pc = "search"
    /\ ~is_char_boundary(grpc_var.network, grpc_var.search_index)
    /\ grpc_var' = [grpc_var EXCEPT !.pc = "panic"]
    /\ UNCHANGED beside_grpc_var

\* One turn of the while let: an upper-case letter is found, '_' is inserted
\* before it and the search goes on behind it.
InsertUnderscore ==
    /\ grpc_var.pc = "search"
    /\ is_char_boundary(grpc_var.network, grpc_var.search_index)
    /\ LET index == find_uppercase(grpc_var.network, grpc_var.search_index)
       IN  /\ index # NoIndex
           /\ grpc_var' = [grpc_var EXCEPT
                             !.network = insert(@, index),
                             !.search_index = index + 2]
    /\ UNCHANGED beside_grpc_var

\* The while let ends: the string is upper-cased, '-' replaced, the suffix
\* pushed, and Ok(network) returned.
PushSuffix ==
    /\ grpc_var.pc = "search"
    /\ is_char_boundary(grpc_var.network, grpc_var.search_index)
    /\ find_uppercase(grpc_var.network, grpc_var.search_index) = NoIndex
    /\ grpc_var' = [grpc_var EXCEPT
                      !.pc = "ok",
                      !.out = replace_hyphen(to_ascii_uppercase(grpc_var.network))
                                \o VAR_SUFFIX]
    /\ UNCHANGED beside_grpc_var

\* Id::dex_node_grpc_var is called with some network identifier.
InitGrpcVar ==
    /\ BroadcastRest
    /\ GasInit
    /\ ContractTxInit
    /\ AlarmsInit
    /\ grpc_var \in {[GrpcVarRest EXCEPT !.pc = "called", !.input = b, !.network = b] :
                        b \in NetworkIds}
    /\ CreationInit
    /\ LegacyInit

NextGrpcVar ==
    \/ CheckEmpty
    \/ SlicePanics
    \/ InsertUnderscore
    \/ PushSuffix

SpecGrpcVar == InitGrpcVar /\ [][NextGrpcVar]_vars

\* The name the claim describes: '_' before each upper-case letter that is not
\* the first character, every letter upper-cased, every '-' turned into '_',
\* and "__NODE_GRPC" appended.
RECURSIVE VarName(_)
VarName(b) ==
    IF b = <<>> THEN VAR_SUFFIX
    ELSE LET ch == b[Len(b)]
             conv == IF ch = "-" THEN "_"
                     ELSE IF ch \in AsciiLower THEN UpperOf[ch] ELSE ch
             piece == IF Len(b) > 1 /\ ch \in AsciiUpper
                      THEN <<"_", conv>> ELSE <<conv>>
         IN  SubSeq(VarName(SubSeq(b, 1, Len(b) - 1)), 1,
                    Len(VarName(SubSeq(b, 1, Len(b) - 1))) - Len(VAR_SUFFIX))
               \o piece \o VAR_SUFFIX

\* The call has come to its end.
GrpcVarDone == grpc_var.pc \in {"ok", "err", "panic"}

\* C29: a non-empty network identifier gives Ok with the name described, an
\* empty one gives an error and no name.
C29_VarName ==
    GrpcVarDone =>
        IF grpc_var.input = <<>>
        THEN grpc_var.pc = "err" /\ grpc_var.out = <<>>
        ELSE grpc_var.pc = "ok" /\ grpc_var.out = VarName(grpc_var.input)

\* C29, the part that holds: an empty identifier gives an error, an identifier
\* whose first character is one byte long gives the name described, and an
\* identifier whose first character is longer ends in the panic of the slice.
C29_VarNameOfAsciiStart ==
    GrpcVarDone =>
        IF grpc_var.input = <<>> THEN grpc_var.pc = "err"
        ELSE IF is_char_boundary(grpc_var.input, 1)
             THEN grpc_var.pc = "ok" /\ grpc_var.out = VarName(grpc_var.input)
             ELSE grpc_var.pc = "panic"

\* ===================================================================
\* Id::into_task: the DEX node clients of the task creation context
\* ===================================================================

\* Variant: the entry is taken for vacant whatever the map holds.
EntryVacant_Always(dex_node_clients, network) == TRUE

\* dex_node_clients.entry(network): BTreeMapEntry::Vacant or Occupied.
EntryVacant(dex_node_clients, network) == dex_node_clients[network] = NoClient

\* What the steps of into_task leave alone.
beside_creation == <<broadcast_vars, node_codes, deadline_passed, lock_vars,
                     gas, contract_tx, alarms, grpc_var, legacy_vars>>

\* into_task is called with the context: it awaits the protocol's
\* information from the admin contract.
IntoTask ==
    /\ creation.pc = "idle"
    /\ creation.calls < MaxCalls
    /\ creation' = [creation EXCEPT !.pc = "protocol", !.calls = @ + 1]
    /\ UNCHANGED beside_creation

\* The admin contract's query failed: into_task returns the error.
ProtocolFails ==
    /\ creation.pc = "protocol"
    /\ creation' = [creation EXCEPT !.pc = "idle"]
    /\ UNCHANGED beside_creation

\* The admin contract answered with the protocol's network: a vacant entry
\* starts a connection, an occupied one gives its client, which is cloned
\* and inserted again under the network.
ProtocolReturns(network) ==
    /\ creation.pc = "protocol"
    /\ creation' =
         IF EntryVacant(creation.dex_node_clients, network)
         THEN [creation EXCEPT !.pc = "connect", !.network = network]
         ELSE [creation EXCEPT !.pc = "oracle", !.network = network]
    /\ UNCHANGED beside_creation

\* dex_node_grpc_var or read_from_var returned an error, or
\* node::Client::connect(..).await? did: nothing is inserted and into_task
\* returns the error.
ConnectFails ==
    /\ creation.pc = "connect"
    /\ creation' = [creation EXCEPT !.pc = "idle", !.network = ""]
    /\ UNCHANGED beside_creation

\* node::Client::connect(..).await returned a new client: it is inserted at
\* the entry, cloned, and the clone inserted under the network.
Connected ==
    /\ creation.pc = "connect"
    /\ creation' = [creation EXCEPT
                      !.pc = "oracle",
                      !.opened = @ + 1,
                      !.connects[creation.network] = @ + 1,
                      !.dex_node_clients[creation.network] = creation.opened + 1]
    /\ UNCHANGED beside_creation

\* Oracle::new(..).await? returned an error: into_task returns it; the
\* client stays in the context.
OracleFails ==
    /\ creation.pc = "oracle"
    /\ creation' = [creation EXCEPT !.pc = "idle", !.network = ""]
    /\ UNCHANGED beside_creation

\* into_task returns Ok(task), the task holding the clone of the client.
TaskCreated ==
    /\ creation.pc = "oracle"
    /\ creation' = [creation EXCEPT
                      !.pc = "idle",
                      !.network = "",
                      !.tasks = Append(@,
                          [network |-> creation.network,
                           dex_node_client |->
                               creation.dex_node_clients[creation.network]])]
    /\ UNCHANGED beside_creation

\* A task creation context without clients.
InitCreation ==
    /\ BroadcastRest
    /\ GasInit
    /\ ContractTxInit
    /\ AlarmsInit
    /\ GrpcVarInit
    /\ creation = [CreationRest EXCEPT !.pc = "idle"]
    /\ LegacyInit

NextCreation ==
    \/ IntoTask
    \/ ProtocolFails
    \/ \E network \in Networks : ProtocolReturns(network)
    \/ ConnectFails
    \/ Connected
    \/ OracleFails
    \/ TaskCreated

SpecCreation == InitCreation /\ [][NextCreation]_vars

\* C30: over the calls of into_task with one context, a connection is opened
\* at most once per network, every task of a network holds the client the
\* context holds for that network, so all of them the same one, and after a
\* successful call the context holds the entry of the task's network; clients
\* of different networks are different.
C30_ClientsSharedByNetwork ==
    /\ \A n \in Networks : creation.connects[n] <= 1
    /\ \A i \in 1..Len(creation.tasks) :
          LET t == creation.tasks[i]
          IN  /\ t.dex_node_client # NoClient
              /\ creation.dex_node_clients[t.network] = t.dex_node_client
    /\ \A i, j \in 1..Len(creation.tasks) :
          creation.tasks[i].network = creation.tasks[j].network
              <=> creation.tasks[i].dex_node_client = creation.tasks[j].dex_node_client
    /\ \A n \in Networks :
          creation.dex_node_clients[n] # NoClient <=> creation.connects[n] = 1

\* C30 witness: three tasks were created, two of one network holding the same
\* client and one of the other network, with two connections opened in all.
C30_Witness ==
    /\ Len(creation.tasks) = 3
    /\ creation.tasks[1].network = creation.tasks[3].network
    /\ creation.tasks[1].dex_node_client = creation.tasks[3].dex_node_client
    /\ creation.tasks[1].network # creation.tasks[2].network
    /\ creation.opened = 2

\* ===================================================================
\* One attempt step by step: simulate_and_sign_tx with its simulation
\* call, and broadcast_with_expiration with the package's deadline
\* ===================================================================

\* Variant: signing the simulation transaction uses the sequence number up.
SequenceAfterSimulation_Consumed(seq) == increment_sequence_number(seq)

\* self.signer.tx(tx, hard_gas_limit) and the simulate call: the signer's
\* sequence number after them.
SequenceAfterSimulation(seq) == seq

\* Variant: the simulation call is raced against the package's deadline.
SimulationExpires_AtDeadline == cur \in deadline_passed

\* self.client.simulate(..).await is awaited as it is, with no
\* expiration.with_expiration(..) around it.
SimulationExpires == FALSE

\* simulate_and_sign_tx up to its await: the simulation transaction is signed
\* with the current sequence number and client.simulate is called.
SignSimulationTx ==
    /\ pc = "sign"
    /\ run.broadcasts < MaxBroadcasts
    /\ pc' = "simulate"
    /\ att' = [AttInit EXCEPT !.sim = "calling",
                              !.sim_signed = sequence_number,
                              !.sim_ce = consecutive_errors,
                              !.late = cur \in deadline_passed,
                              !.prev_code = att.code,
                              !.prev_fetch = att.fetch_value]
    /\ sequence_number' = SequenceAfterSimulation(sequence_number)
    /\ UNCHANGED <<other_vars, node, chain_seq, senders_alive, next_id, transaction_rx,
                   feedback, cur, consecutive_errors, response, pkg, run>>

\* Variant: a failed simulation is counted as an error of the budget.
SimulationReturns_CountsFailure(ok) ==
    /\ pc = "simulate"
    /\ IF SimulationExpires
       THEN /\ pc' = "delay"
            /\ feedback' = DropSender(cur)
            /\ cur' = NoPackage
            /\ att' = [att EXCEPT !.outcome = "expired"]
            /\ UNCHANGED <<pkg, run>>
       ELSE /\ pc' = "broadcast"
            /\ att' = [att EXCEPT !.sim = IF ok THEN "ok" ELSE "failed",
                                  !.signed = sequence_number,
                                  !.ce_before = consecutive_errors,
                                  !.outcome = "pending"]
            /\ pkg' = [pkg EXCEPT !.broadcasts = @ + 1]
            /\ run' = [run EXCEPT !.broadcasts = @ + 1,
                                  !.prev_signed = run.last_signed,
                                  !.last_signed = sequence_number,
                                  !.fetch_between = run.fetch_since_sign,
                                  !.fetch_since_sign = FALSE]
            /\ UNCHANGED <<feedback, cur>>
    /\ consecutive_errors' =
         IF ok THEN consecutive_errors ELSE (consecutive_errors + 1) % ErrorBudget
    /\ UNCHANGED <<other_vars, node, chain_seq, senders_alive, next_id, transaction_rx,
                   sequence_number, response>>

\* client.simulate returns, Ok(gas) or Err: the transaction for broadcasting
\* is signed, with the adjusted gas or with the fallback gas, and handed to
\* broadcast_with_expiration.
SimulationReturns(ok) ==
    /\ pc = "simulate"
    /\ IF SimulationExpires
       THEN /\ pc' = "delay"
            /\ feedback' = DropSender(cur)
            /\ cur' = NoPackage
            /\ att' = [att EXCEPT !.outcome = "expired"]
            /\ UNCHANGED <<pkg, run>>
       ELSE /\ pc' = "broadcast"
            /\ att' = [att EXCEPT !.sim = IF ok THEN "ok" ELSE "failed",
                                  !.signed = sequence_number,
                                  !.ce_before = consecutive_errors,
                                  !.outcome = "pending"]
            /\ pkg' = [pkg EXCEPT !.broadcasts = @ + 1]
            /\ run' = [run EXCEPT !.broadcasts = @ + 1,
                                  !.prev_signed = run.last_signed,
                                  !.last_signed = sequence_number,
                                  !.fetch_between = run.fetch_since_sign,
                                  !.fetch_since_sign = FALSE]
            /\ UNCHANGED <<feedback, cur>>
    /\ UNCHANGED <<other_vars, node, chain_seq, senders_alive, next_id, transaction_rx,
                   sequence_number, consecutive_errors, response>>

\* The transaction intended for broadcasting cannot be signed: broadcast_tx
\* returns the error, run ends.
SignBroadcastFails ==
    /\ pc = "simulate"
    /\ pc' = "stopped"
    /\ feedback' = DropSender(cur)
    /\ cur' = NoPackage
    /\ att' = [att EXCEPT !.outcome = "sign_failed"]
    /\ UNCHANGED <<other_vars, node, chain_seq, senders_alive, next_id, transaction_rx,
                   sequence_number, consecutive_errors, response, pkg, run>>

NextAttempt ==
    \/ EnqueueLive
    \/ CloseQueue
    \/ \E p \in Packages : DeadlinePasses(p)
    \/ Recv
    \/ RecvClosed
    \/ Delay
    \/ SignSimulationTx
    \/ SignFail
    \/ \E ok \in BOOLEAN : SimulationReturns(ok)
    \/ SignBroadcastFails
    \/ TimedExpired
    \/ TimedTransportError
    \/ TimedResponse
    \/ FetchOk
    \/ FetchFail
    \/ RetrySleep

SpecAttempt == Init /\ [][NextAttempt]_vars

\* The attempt got a response that was the fifth consecutive error: the
\* counter, at 4 before it, wrapped to 0.
Wrapped ==
    /\ att.outcome = "response"
    /\ att.code # CodeOk
    /\ att.ce_before = ErrorBudget - 1

\* C32: the consecutive-error counter is always in 0..4: it is 0 until the
\* first response, it never holds 5, and fetch_sequence_number is called by
\* exactly the attempts whose error response wrapped it from 4 to 0.
C32_CounterWithinBudget ==
    /\ consecutive_errors \in 0..(ErrorBudget - 1)
    /\ run.broadcasts = 0 => consecutive_errors = 0
    /\ (pc = "fetch" \/ att.fetched # "none") <=> Wrapped
    /\ Wrapped => consecutive_errors = 0
    /\ (att.outcome = "response" /\ ~Wrapped) =>
            consecutive_errors =
                IF att.code = CodeOk THEN 0 ELSE att.ce_before + 1

\* C32 witness: six consecutive error responses: the fifth wrapped the counter
\* and forced the fetch, the sixth is counted as the first again.
C32_Witness ==
    /\ run.err_run = ErrorBudget + 1
    /\ att.outcome = "response"
    /\ att.ce_before = 0
    /\ consecutive_errors = 1

\* C33: while the forced fetch is in flight the response that exhausted the
\* budget is held, not yet sent; if the fetch fails the broadcaster has
\* stopped, nothing was sent on the package's feedback channel, whose sender
\* is dropped, and no package enqueued after it is ever handled; if it succeeds
\* a response with a code other than 32 is sent after it.
C33_FetchBeforeFeedback ==
    /\ pc = "fetch" =>
        /\ Wrapped
        /\ response = att.code
        /\ cur = pkg.id
        /\ Unsent(pkg.id)
    /\ att.fetched = "failed" =>
        /\ pc = "stopped"
        /\ cur = NoPackage
        /\ feedback[pkg.id].st \in {"closed", "dead"}
        /\ \A q \in Packages : q > pkg.id => feedback[q].st \in {"unsent", "pending"}
    /\ (att.fetched = "ok" /\ DeliversFeedback(att.code)) =>
        /\ Sent(pkg.id, att.code)
        /\ pc = "delay"

\* C33 witness: the fetch forced by a code-11 response failed: the broadcaster
\* has stopped, the task of the package sees its channel closed, and another
\* package is left in the queue, its task waiting.
C33_Witness ==
    /\ att.fetched = "failed"
    /\ att.code \in OtherCodes
    /\ pc = "stopped"
    /\ feedback[pkg.id].st = "closed"
    /\ transaction_rx # <<>>
    /\ feedback[Head(transaction_rx)].st = "pending"

\* The fifth consecutive error was a code-32 response and the forced fetch has
\* returned.
C34_Applies ==
    /\ Wrapped
    /\ att.code = SIGNATURE_VERIFICATION_ERROR_CODE
    /\ att.fetched \in {"ok", "failed"}

\* C34 as stated: when the response that exhausts the budget has code 32, the
\* sequence number after the iteration is the value the node reported, no
\* feedback is delivered, and the same package is signed again and retried.
C34_AlwaysRetried ==
    C34_Applies =>
        /\ att.fetched = "ok" => sequence_number = att.fetch_value
        /\ ~Sent(pkg.id, att.code)
        /\ cur = pkg.id
        /\ pc \in {"retry_sleep", "sign"}

\* C34 amended: the same when the forced fetch succeeds: the sequence number
\* is the fetched value, whatever the incremented local value was, nothing is
\* sent, and the package's next attempt signs the simulation and the broadcast
\* transaction with the fetched value. When the forced fetch fails the
\* incremented value stays, the broadcaster terminates and the package is
\* dropped unsent, not retried.
C34_FetchOverwritesIncrement ==
    /\ (C34_Applies /\ att.fetched = "ok") =>
        /\ sequence_number = att.fetch_value
        /\ pc \in {"retry_sleep", "sign"}
        /\ cur = pkg.id
        /\ Unsent(pkg.id)
    /\ (C34_Applies /\ att.fetched = "failed") =>
        /\ sequence_number = increment_sequence_number(att.signed)
        /\ pc = "stopped"
        /\ cur = NoPackage
        /\ feedback[pkg.id].st \in {"closed", "dead"}
    /\ (att.prev_code = SIGNATURE_VERIFICATION_ERROR_CODE
            /\ att.prev_fetch # NoSeq) =>
        /\ pkg.broadcasts >= 1
        /\ att.sim_signed = att.prev_fetch
        /\ att.signed \in {NoSeq, att.prev_fetch}

\* C34 witness: the package is broadcast again, signed with the fetched value,
\* which is neither the value the code-32 attempt before it was signed with
\* plus one nor the chain's value plus one.
C34_Witness ==
    /\ pc = "broadcast"
    /\ att.prev_code = SIGNATURE_VERIFICATION_ERROR_CODE
    /\ att.prev_fetch # NoSeq
    /\ att.signed = att.prev_fetch
    /\ att.prev_fetch # run.prev_signed + 1
    /\ feedback[cur].st = "pending"

\* ===================================================================
\* State::run: no deadlock between the instances, and take-over
\* ===================================================================

\* tokio's Mutex hands a free lock to a waiting lock_owned() call: an instance
\* that waits for a lock that stays free gets it. Nothing is assumed of how
\* long an instance runs.
FairnessLock ==
    \A i \in Instances :
        /\ WF_vars(LockSigner(i))
        /\ WF_vars(LockTransactionRx(i))

SpecLockLive == Init /\ [][NextLock]_vars /\ FairnessLock

\* The instances that wait for a lock.
Waiting == {i \in Instances : inst[i] \in {"lock_signer", "lock_rx"}}

\* The instances whose Broadcast runs.
Running == {i \in Instances : inst[i] = "run"}

\* The locks are taken in one order: the queue receiver's lock is awaited and
\* held only by the holder of the signer's lock; at most one instance runs;
\* with no instance running the receiver's lock is free, and the signer's lock
\* is free or held by an instance that can take the receiver's lock at once.
C35_LockOrder ==
    /\ \A i \in Instances :
        /\ inst[i] = "lock_rx" => signer_lock = i
        /\ rx_lock = i => (signer_lock = i /\ inst[i] = "run")
    /\ Cardinality(Running) <= 1
    /\ Running = {} =>
        /\ rx_lock = NoInstance
        /\ signer_lock = NoInstance \/ inst[signer_lock] = "lock_rx"
    /\ (Waiting # {} /\ Running = {}) =>
        \E i \in Waiting : ENABLED (LockSigner(i) \/ LockTransactionRx(i))

\* C35: no deadlock and take-over. The locks are taken in one order, only the
\* running instance uses the signer, and an instance that waits for a lock
\* gets to run (or its future is dropped) unless another instance is running:
\* after the running instance has ended, a waiting one takes over.
C35_NoDeadlock ==
    /\ []C35_LockOrder
    /\ [][\A i \in Instances :
            UseSigner(i) => (signer_lock = i /\ rx_lock = i /\ Running = {i})]_vars
    /\ \A i \in Instances :
          (i \in Waiting) ~> (inst[i] \in {"run", "done"} \/ Running \ {i} # {})

\* C35 witness: one instance has run and ended, a second one took over and
\* runs with both locks, a third one waits for the signer's lock.
C35_Witness ==
    \E i, j, k \in Instances :
        /\ inst[i] = "done"
        /\ inst[j] = "run" /\ signer_lock = j /\ rx_lock = j
        /\ inst[k] = "lock_signer"
        /\ sequence_number = 1

\* C36: a package is abandoned as expired only by the broadcast step of an
\* attempt: its simulation has returned and the transaction was signed before;
\* while the package is signed, simulated or slept for it stays the one
\* handled, nothing sent, its sender held, whether its deadline has passed or
\* not; so an attempt started after the deadline also simulates and signs.
C36_ExpiresOnlyAtBroadcast ==
    /\ att.outcome = "expired" =>
        /\ pc = "delay"
        /\ att.sim \in {"ok", "failed"}
        /\ att.signed # NoSeq
        /\ att.signed = att.sim_signed
        /\ pkg.broadcasts >= 1
        /\ pkg.id \in deadline_passed
        /\ feedback[pkg.id].st \in {"closed", "dead"}
    /\ pc \in {"sign", "simulate", "retry_sleep"} =>
        /\ cur # NoPackage
        /\ Unsent(cur)
    /\ (att.late /\ pc \in {"broadcast", "delay"}) =>
        /\ att.sim \in {"ok", "failed"}
        /\ att.signed = att.sim_signed

\* C36 witness: the package's deadline passed before its second attempt
\* started; that attempt simulated and signed all the same, and the package
\* was abandoned at its broadcast step.
C36_Witness ==
    /\ att.late
    /\ att.prev_code = SIGNATURE_VERIFICATION_ERROR_CODE
    /\ att.sim = "ok"
    /\ att.outcome = "expired"
    /\ pkg.broadcasts = 2
    /\ feedback[pkg.id].st = "closed"

\* C37: simulating does not use a sequence number up: while the simulation is
\* in flight and when the broadcast transaction has been signed, the sequence
\* number and the consecutive-error counter are what they were when the
\* simulation transaction was signed, whether the simulation succeeded or
\* failed, and both transactions of the attempt carry the same sequence number.
C37_SimulationKeepsSequence ==
    /\ pc \in {"simulate", "broadcast"} =>
        /\ sequence_number = att.sim_signed
        /\ consecutive_errors = att.sim_ce
    /\ att.sim \in {"ok", "failed"} =>
        /\ att.signed = att.sim_signed
        /\ att.ce_before = att.sim_ce
    /\ pc = "broadcast" => att.sim \in {"ok", "failed"}

\* C37 witness: after two counted errors the simulation of the next attempt
\* failed, and the transaction was signed, with the fallback gas, with the
\* sequence number the simulation transaction carried.
C37_Witness ==
    /\ pc = "broadcast"
    /\ att.sim = "failed"
    /\ att.sim_ce = 2
    /\ att.sim_signed >= 1
    /\ att.signed = att.sim_signed
    /\ sequence_number = att.signed

\* ===================================================================
\* chain-comms: commit_tx and the signer's sequence
\* ===================================================================

\* const ERROR_CODE: Code = Code::Err(13)
ERROR_CODE == 13

\* The codes of check_tx and of deliver_tx, and the gas amounts, of a commit
\* response.
CheckCodes == {CodeOk, 5}
DeliverCodes == {CodeOk, 11, ERROR_CODE}
GasAmounts == {0, 1}

\* Signer::tx_confirmed: the sequence advances by one.
tx_confirmed(sequence) == sequence + 1

\* Variant: a deliver result with the code is never confirmed, whatever its gas.
Confirms_UnlessCode(deliver, gas_used, gas_wanted) ==
    deliver # ERROR_CODE

\* if !(deliver_tx.code == ERROR_CODE && deliver_tx.gas_used == 0
\*      && deliver_tx.gas_wanted == 0)
Confirms(deliver, gas_used, gas_wanted) ==
    ~(deliver = ERROR_CODE /\ gas_used = 0 /\ gas_wanted = 0)

\* What the steps of commit_tx leave alone.
beside_commit == <<broadcast_vars, node_codes, deadline_passed, lock_vars,
                   gas, contract_tx, alarms, grpc_var, creation,
                   send_back, provider>>

\* commit_tx up to its await: the fee is calculated, the transaction signed
\* and broadcast_commit called.
LegacyCommitTx ==
    /\ commit.pc = "idle"
    /\ commit.calls < MaxCommits
    /\ commit' = [CommitRest EXCEPT !.pc = "rpc",
                                    !.sequence = commit.sequence,
                                    !.before = commit.sequence,
                                    !.calls = commit.calls + 1]
    /\ UNCHANGED beside_commit

\* calculate_fee(..)? or unsigned_tx.commit(..)? returns the error.
LegacyCommitTxFails(stage) ==
    /\ commit.pc = "idle"
    /\ commit.calls < MaxCommits
    /\ commit' = [CommitRest EXCEPT !.pc = "idle",
                                    !.sequence = commit.sequence,
                                    !.before = commit.sequence,
                                    !.calls = commit.calls + 1,
                                    !.result = stage]
    /\ UNCHANGED beside_commit

\* with_json_rpc(..).await? returns the error of the broadcast RPC.
BroadcastCommitFails ==
    /\ commit.pc = "rpc"
    /\ commit' = [commit EXCEPT !.pc = "idle", !.result = "rpc"]
    /\ UNCHANGED beside_commit

\* broadcast_commit returns the commit response: tx_confirmed unless the
\* deliver result is the code with no gas, then Ok(tx_commit_response).
BroadcastCommitReturns(check, deliver, gas_used, gas_wanted) ==
    /\ commit.pc = "rpc"
    /\ commit' = [commit EXCEPT
                    !.pc = "idle",
                    !.result = "response",
                    !.check = check,
                    !.deliver = deliver,
                    !.gas_used = gas_used,
                    !.gas_wanted = gas_wanted,
                    !.sequence = IF Confirms(deliver, gas_used, gas_wanted)
                                 THEN tx_confirmed(@) ELSE @]
    /\ UNCHANGED beside_commit

\* A signer with its sequence at 0; commit_tx has not been called yet.
InitCommit ==
    /\ BroadcastRest
    /\ GasInit
    /\ ContractTxInit
    /\ AlarmsInit
    /\ GrpcVarInit
    /\ CreationInit
    /\ commit = [CommitRest EXCEPT !.pc = "idle"]
    /\ SendBackInit
    /\ ProviderInit

NextCommit ==
    \/ LegacyCommitTx
    \/ \E stage \in {"fee", "sign"} : LegacyCommitTxFails(stage)
    \/ BroadcastCommitFails
    \/ \E check \in CheckCodes, deliver \in DeliverCodes,
          gas_used \in GasAmounts, gas_wanted \in GasAmounts :
            BroadcastCommitReturns(check, deliver, gas_used, gas_wanted)

SpecCommit == InitCommit /\ [][NextCommit]_vars

\* C38: after a call of commit_tx has returned, the signer's sequence is one
\* more than before the call if a commit response came back and its deliver
\* result is not code 13 with gas_used = 0 and gas_wanted = 0, whatever the
\* codes of check_tx and deliver_tx otherwise; it is unchanged after that one
\* response and after a failure of the fee calculation, of the signing or of
\* the broadcast RPC.
C38_ConfirmedUnlessNotExecuted ==
    (commit.pc = "idle" /\ commit.result # "none") =>
        IF /\ commit.result = "response"
           /\ ~(commit.deliver = 13 /\ commit.gas_used = 0 /\ commit.gas_wanted = 0)
        THEN commit.sequence = commit.before + 1
        ELSE commit.sequence = commit.before

\* C38 witness: a response whose check_tx has an error code and whose deliver
\* result has code 13 with gas used advanced the sequence, after a call whose
\* RPC failed had left it alone.
C38_Witness ==
    /\ commit.pc = "idle"
    /\ commit.calls = 2
    /\ commit.result = "response"
    /\ commit.check # CodeOk
    /\ commit.deliver = ERROR_CODE
    /\ commit.gas_used = 1
    /\ commit.gas_wanted = 0
    /\ commit.before = 0
    /\ commit.sequence = 1

\* ===================================================================
\* broadcast.rs: broadcast_and_send_back_tx_hash and send_back_tx_hash
\* ===================================================================

\* The codes of the commit responses.
ResponseCodes == {CodeOk, 5, SIGNATURE_VERIFICATION_ERROR_CODE}

\* Variant: every error is typed Unknown.
CommitResult_Untyped(code) ==
    IF code = CodeOk THEN "Ok(hash)" ELSE "Unknown"

\* The value handed to sender.send: Ok(tx_response.hash), or Err(CommitError)
\* with its type.
CommitResult(code) ==
    IF code = CodeOk THEN "Ok(hash)"
    ELSE IF code = 32 THEN "InvalidAccountSequence"
    ELSE "Unknown"

\* send_back_tx_hash: what was handed to send, whether the send succeeded,
\* the result returned, and whether poll_delivered_tx was spawned. `sender` is
\* the entry of tx_result_senders: none, or a sender whose receiver is live or
\* closed.
send_back_tx_hash(sender, code) ==
    IF sender # "none"
    THEN IF sender = "live"
         THEN [message |-> CommitResult(code), received |-> TRUE,
               result |-> "Ok", polling |-> FALSE]
         ELSE [message |-> CommitResult(code), received |-> FALSE,
               result |-> "ChannelClosed", polling |-> TRUE]
    ELSE [message |-> "none", received |-> FALSE,
          result |-> "Ok", polling |-> TRUE]

\* What the steps of broadcast.rs leave alone.
beside_send_back == <<broadcast_vars, node_codes, deadline_passed, lock_vars,
                      gas, contract_tx, alarms, grpc_var, creation,
                      commit, provider>>

\* A generator drops the receiver of its results.
DropResultReceiver(id) ==
    /\ send_back.pc = "idle"
    /\ send_back.tx_result_senders[id] = "live"
    /\ send_back' = [send_back EXCEPT !.tx_result_senders[id] = "closed"]
    /\ UNCHANGED beside_send_back

\* broadcast_and_send_back_tx_hash up to its await: Impl::broadcast_commit is
\* called with the request's signed bytes.
BroadcastAndSendBackTxHash(sender_id) ==
    /\ send_back.pc = "idle"
    /\ send_back.n < MaxSends
    /\ send_back' = [SendBackRest EXCEPT
                       !.pc = "rpc",
                       !.tx_result_senders = send_back.tx_result_senders,
                       !.n = send_back.n + 1,
                       !.sender_id = sender_id]
    /\ UNCHANGED beside_send_back

\* Impl::broadcast_commit(..).await? returns the signed bytes as the error.
ImplBroadcastCommitFails ==
    /\ send_back.pc = "rpc"
    /\ send_back' = [send_back EXCEPT !.pc = "idle", !.outcome = "err"]
    /\ UNCHANGED beside_send_back

\* Impl::broadcast_commit returns the response: send_back_tx_hash, then
\* Ok(BroadcastAndSendBackTxHash { channel_closed, .. }).
SendBackTxHash(code) ==
    /\ send_back.pc = "rpc"
    /\ LET sender == send_back.tx_result_senders[send_back.sender_id]
           sent == send_back_tx_hash(sender, code)
       IN send_back' = [send_back EXCEPT
                          !.pc = "idle",
                          !.outcome = "response",
                          !.code = code,
                          !.was = sender,
                          !.message = sent.message,
                          !.received = sent.received,
                          !.polling = sent.polling,
                          !.channel_closed =
                              IF sent.result = "ChannelClosed"
                              THEN send_back.sender_id ELSE NoSender]
    /\ UNCHANGED beside_send_back

\* The result senders registered at startup, their receivers live.
InitSendBack ==
    /\ BroadcastRest
    /\ GasInit
    /\ ContractTxInit
    /\ AlarmsInit
    /\ GrpcVarInit
    /\ CreationInit
    /\ CommitInit
    /\ send_back \in {[SendBackRest EXCEPT !.pc = "idle", !.tx_result_senders = f] :
                        f \in [SenderIds -> {"none", "live"}]}
    /\ ProviderInit

NextSendBack ==
    \/ \E id \in SenderIds : DropResultReceiver(id)
    \/ \E sender_id \in SenderIds : BroadcastAndSendBackTxHash(sender_id)
    \/ ImplBroadcastCommitFails
    \/ \E code \in ResponseCodes : SendBackTxHash(code)

SpecSendBack == InitSendBack /\ [][NextSendBack]_vars

\* C39: after send_back_tx_hash, with a sender registered for the request's
\* sender_id, send was called with Ok(hash) for code 0, with an error typed
\* InvalidAccountSequence for code 32 and with one typed Unknown for any other
\* code, and with no sender registered nothing was sent; channel_closed is
\* Some(sender_id) exactly when a sender was registered and its receiver was
\* gone; the polling task was spawned exactly when no live receiver got the
\* result.
C39_SendBackByCode ==
    (send_back.pc = "idle" /\ send_back.outcome = "response") =>
        LET registered == send_back.was # "none"
            live == send_back.was = "live"
        IN /\ registered =>
                send_back.message =
                    CASE send_back.code = 0 -> "Ok(hash)"
                      [] send_back.code = 32 -> "InvalidAccountSequence"
                      [] OTHER -> "Unknown"
           /\ ~registered => send_back.message = "none"
           /\ send_back.received <=> (registered /\ live)
           /\ send_back.channel_closed =
                IF registered /\ ~live THEN send_back.sender_id ELSE NoSender
           /\ send_back.polling <=> ~send_back.received

\* C39 witness: the third broadcast, answered with code 32, found the
\* receiver of sender 0 gone: the error typed InvalidAccountSequence was not
\* received, channel_closed is Some(0) and the polling task was spawned.
C39_Witness ==
    /\ send_back.pc = "idle"
    /\ send_back.n = 3
    /\ send_back.outcome = "response"
    /\ send_back.sender_id = 0
    /\ send_back.code = 32
    /\ send_back.was = "closed"
    /\ send_back.message = "InvalidAccountSequence"
    /\ send_back.channel_closed = 0
    /\ send_back.polling

\* ===================================================================
\* provider.rs: Type::from_str and Factory::new_provider
\* ===================================================================

\* The main_type and name strings of the configurations read.
MainTypes == {"crypto", "Crypto", "CRYPTO", "crypt", "cryptos", " crypto", "",
              "invalid"}
ProviderNames == {"osmosis", "binance", "invalid", ""}

\* Variant: the type is matched without regard to case.
from_str_IgnoresCase(input) ==
    IF input \in {"crypto", "Crypto", "CRYPTO"} THEN "Crypto" ELSE "Err"

\* Type::from_str.
from_str(input) ==
    IF input = "crypto" THEN "Crypto" ELSE "Err"

\* CryptoType::from_str: the provider names supported.
CryptoType_from_str(name) ==
    IF name = "osmosis" THEN "Osmosis" ELSE "Err"

\* Factory::new_provider for Type::Crypto: the result, and the name carried
\* by UnsupportedProviderType.
new_provider(name) ==
    IF CryptoType_from_str(name) = "Err"
    THEN [result |-> "UnsupportedProviderType", unsupported |-> name]
    ELSE [result |-> "Ok", unsupported |-> ""]

\* What the steps of provider.rs leave alone.
beside_provider == <<broadcast_vars, node_codes, deadline_passed, lock_vars,
                     gas, contract_tx, alarms, grpc_var, creation,
                     commit, send_back>>

\* A provider configuration is read.
ReadProviders(main_type, name) ==
    /\ provider.pc \in {"idle", "type_err", "done"}
    /\ provider.n < MaxProviders
    /\ provider' = [ProviderRest EXCEPT
                      !.pc = "read",
                      !.n = provider.n + 1,
                      !.main_type = main_type,
                      !.name = name]
    /\ UNCHANGED beside_provider

\* Type::from_str(&cfg.main_type).
TypeFromStr ==
    /\ provider.pc = "read"
    /\ LET t == from_str(provider.main_type)
       IN provider' = [provider EXCEPT
                         !.type = t,
                         !.pc = IF t = "Err" THEN "type_err" ELSE "typed"]
    /\ UNCHANGED beside_provider

\* Factory::new_provider(&Type::Crypto, &cfg).
NewProvider ==
    /\ provider.pc = "typed"
    /\ provider.type = "Crypto"
    /\ LET made == new_provider(provider.name)
       IN provider' = [provider EXCEPT
                         !.pc = "done",
                         !.result = made.result,
                         !.unsupported = made.unsupported]
    /\ UNCHANGED beside_provider

InitProvider ==
    /\ BroadcastRest
    /\ GasInit
    /\ ContractTxInit
    /\ AlarmsInit
    /\ GrpcVarInit
    /\ CreationInit
    /\ CommitInit
    /\ SendBackInit
    /\ provider = [ProviderRest EXCEPT !.pc = "idle"]

NextProvider ==
    \/ \E main_type \in MainTypes, name \in ProviderNames :
           ReadProviders(main_type, name)
    \/ TypeFromStr
    \/ NewProvider

SpecProvider == InitProvider /\ [][NextProvider]_vars

====
